---- MODULE Spec2Model ----
(***************************************************************************)
(* Model of propher's measure-list-latency mode (RunMeasureListLatency):   *)
(* the reconciliation loop draining the observation list into the hold     *)
(* list, the lost-message export, the stats and the optional restore.      *)
(* Redis lists are sequences whose first element is the list's head:       *)
(* RPOP takes the last element, LPUSH prepends.                            *)
(* Message ids are strings in the program; here they are the numbers       *)
(* 1..MaxId, ordered as sort.Strings orders the strings they stand for.    *)
(* A *int64 is a sequence of length at most one (<<>> is nil).             *)
(***************************************************************************)
EXTENDS Integers, Sequences, FiniteSets

VARIABLES
    cfg,          \* measureCfg: DurationSec, BlockSec, Restore, RestoreVerify, T0Unit,
                  \* SourceSentUnit
    payloads,     \* the payloads the system under test may emit
    dump,         \* the lines of the SourceDump file
    sourceStats,  \* sourceIndexStats of the load
    outFile,      \* OutJSONL as it is on disk once the function has returned
    outCreated,   \* os.Create of OutJSONL succeeded in this invocation
    pc,           \* position in RunMeasureListLatency
    run,          \* number of the current invocation
    clock,        \* wall clock, microseconds
    obs, hold,    \* the Redis lists ObsQueue and hq
    sourceIndex,  \* map id -> sourceRecord
    found, foundCount,
    startUs, endUs, checkedAt,
    total, okCount, badCount,
    serveTimes, latencies,
    stopReason,
    out,          \* records written to OutJSONL
    warned,       \* [WARN] line: <<>> or <<missing>>
    lostFile,     \* lost.json: <<>> (not written) or <<lostMessages>>
    lostRuns,     \* number of times the lost export was executed
    statsFile,    \* stats json: <<>> or <<measureStatsFile>>
    moved,        \* restore loop counter
    err,          \* error returned by RunMeasureListLatency ("" is nil)
    obs0, hold0,  \* history: the lists when this invocation started
    obsR, holdR,  \* history: the lists when the restore phase started
    ext,          \* history: the payloads pushed by the other client
    ext0, extR,   \* history: Len(ext) when the invocation and its restore phase started
    past,         \* history: how the earlier invocation ended, <<>> in the first
    arg,          \* the arguments of a function called on its own, see SpecNormalize, SpecPercentile, SpecArgs
    res           \* the result of that call

vars == <<cfg, payloads, arg, res, dump, sourceStats, outFile, outCreated, pc, run, clock, obs, hold, sourceIndex, found, foundCount,
          startUs, endUs, checkedAt, total, okCount, badCount, serveTimes,
          latencies, stopReason, out, warned, lostFile, lostRuns, statsFile,
          moved, err, obs0, hold0, obsR, holdR, ext, ext0, extR, past>>

----------------------------------------------------------------------------
(* Bounds of the model *)
MaxId == 2
MaxQueue == 2
MaxHold == 1
MaxExt == 1
RepeatQueue == 2
MaxDump == 2

(* Program constants *)
UsPerSec == 1000000

Ids == 1..MaxId
Durations == {0, 1}
BlockSecs == {1}

----------------------------------------------------------------------------
(* Decoded JSON values: k is the kind of value, v its content.             *)
(*   absent  the key is not in the object                                  *)
(*   null    JSON null                                                     *)
(*   num     a json.Number holding the integer v                           *)
(*   idstr   a string that trims to the id v                               *)
(*   blank   a string that trims to ""                                     *)
(*   iso     a string with one of "T:-" that parses as a timestamp, of     *)
(*           which v is the UnixMicro                                      *)
(*   isobad  a string with one of "T:-" that does not parse                *)
(*   numstr  a string of decimal digits, with a sign when v < 0            *)
(*   frac    a json.Number with a fraction or an exponent                  *)
(*   text    any other non-blank string without one of "T:-"               *)
(* A num, numstr or iso holds the integer v * 10^e: an int64 reaches 10^18 *)
(* and is kept as a mantissa and a decimal exponent.                       *)
Absent == [k |-> "absent", v |-> 0, e |-> 0]
Null == [k |-> "null", v |-> 0, e |-> 0]
NumE(m, e) == [k |-> "num", v |-> m, e |-> e]
Num(n) == NumE(n, 0)
Str(n) == [k |-> "idstr", v |-> n, e |-> 0]
Blank == [k |-> "blank", v |-> 0, e |-> 0]
IsoE(m, e) == [k |-> "iso", v |-> m, e |-> e]
Iso(us) == IsoE(us, 0)
IsoBad == [k |-> "isobad", v |-> 0, e |-> 0]
NumStr(m, e) == [k |-> "numstr", v |-> m, e |-> e]
Frac == [k |-> "frac", v |-> 0, e |-> 0]
Text == [k |-> "text", v |-> 0, e |-> 0]

(* A payload: json = FALSE is a payload that is no JSON object. *)
Garbage == [json |-> FALSE, id |-> Absent, t0 |-> Absent]
Obj(idf, t0f) == [json |-> TRUE, id |-> idf, t0 |-> t0f]

decodeJSONMap(raw) == raw.json

extractString(v) ==
    CASE v.k = "null" -> <<>>
      [] v.k = "blank" -> <<>>
      [] v.k = "idstr" -> <<v.v>>
      [] v.k = "num" -> <<v.v>>
      [] OTHER -> <<>>

(* strings.ToLower(strings.TrimSpace(unit)) over the tokens of the model *)
normalizeUnit(unit) ==
    CASE unit \in {"US", " us "} -> "us"
      [] unit \in {"MS", " ms "} -> "ms"
      [] unit \in {"S", " s "} -> "s"
      [] unit \in {"AUTO", "Auto", " auto "} -> "auto"
      [] unit = " " -> ""
      [] OTHER -> unit

(* An int64 as mantissa and decimal exponent *)
Sci(m, e) == [m |-> m, e |-> e]

RECURSIVE Pow10(_)
Pow10(k) == IF k = 0 THEN 1 ELSE 10 * Pow10(k - 1)

Int64Of(x) == x.m * Pow10(x.e)

(* x * 10^k *)
Scale(x, k) == Sci(x.m, x.e + k)

RECURSIVE AtLeastPow10(_, _)
AtLeastPow10(n, k) == IF k = 0 THEN n >= 1 ELSE AtLeastPow10(n \div 10, k - 1)

(* x >= 10^k *)
AtLeast(x, k) == IF x.e >= k THEN x.m >= 1 ELSE AtLeastPow10(x.m, k - x.e)

parseInt(v) ==
    CASE v.k = "num" -> <<Sci(v.v, v.e)>>
      [] OTHER -> <<>>

(* Mutant: a value without unit information is taken as microseconds *)
scaleEpoch_AutoKeeps(num, u) ==
    CASE u = "s" -> <<Scale(num, 6)>>
      [] u = "ms" -> <<Scale(num, 3)>>
      [] u \in {"us", "auto"} -> <<num>>
      [] OTHER -> <<>>

(* lines 163-184: the switch on the normalized unit; abs is num itself *)
scaleEpoch(num, u) ==
    CASE u = "auto" ->
           (CASE AtLeast(num, 15) -> <<num>>
              [] ~AtLeast(num, 15) /\ AtLeast(num, 12) -> <<Scale(num, 3)>>
              [] ~AtLeast(num, 12) /\ AtLeast(num, 9) -> <<Scale(num, 6)>>
              [] OTHER -> <<>>)
      [] u = "s" -> <<Scale(num, 6)>>
      [] u = "ms" -> <<Scale(num, 3)>>
      [] u = "us" -> <<num>>
      [] OTHER -> <<>>

(* lines 123-162. A string is never handed to parseInt: a timestamp gives  *)
(* its UnixMicro; a string without "T:-" is not parsed at all and leaves   *)
(* num = 0 and err = nil; a signed digit string holds "-", is tried as a   *)
(* timestamp and fails.                                                    *)
parseValue(v) ==
    CASE v.k = "null" -> <<>>
      [] v.k = "blank" -> <<>>
      [] v.k = "isobad" -> <<>>
      [] v.k = "iso" -> <<Sci(v.v, v.e)>>
      [] v.k = "text" -> <<Sci(0, 0)>>
      [] v.k = "numstr" -> IF v.v < 0 THEN <<>> ELSE <<Sci(0, 0)>>
      [] OTHER -> parseInt(v)

(* lines 123-185 over mantissa and exponent *)
normalizeEpoch(v, unit) ==
    IF parseValue(v) = <<>> THEN <<>>
    ELSE scaleEpoch(parseValue(v)[1], normalizeUnit(unit))

(* Mutant: every number is taken as milliseconds, strings are refused *)
parseFieldToEpoch_AlwaysMs(v, unit) ==
    IF v.k = "num" THEN <<v.v * 1000>> ELSE <<>>

(* lines 123-185 *)
parseFieldToEpoch(v, unit) ==
    IF normalizeEpoch(v, unit) = <<>> THEN <<>>
    ELSE <<Int64Of(normalizeEpoch(v, unit)[1])>>

----------------------------------------------------------------------------
(* Sequences *)
Front(s) == SubSeq(s, 1, Len(s) - 1)
Last(s) == s[Len(s)]

SetMin(S) == CHOOSE x \in S : \A y \in S : x <= y

SetMax(S) == CHOOSE x \in S : \A y \in S : x >= y

(* Mutant: the ids are left in an order other than the ascending one *)
RECURSIVE SortStrings_Unsorted(_)
SortStrings_Unsorted(S) ==
    IF S = {} THEN <<>> ELSE <<SetMax(S)>> \o SortStrings_Unsorted(S \ {SetMax(S)})

(* sort.Strings over the ids collected from the map iteration *)
RECURSIVE SortStrings(_)
SortStrings(S) ==
    IF S = {} THEN <<>> ELSE <<SetMin(S)>> \o SortStrings(S \ {SetMin(S)})

RECURSIVE Insert(_, _)
Insert(x, s) ==
    IF s = <<>> THEN <<x>>
    ELSE IF x <= Head(s) THEN <<x>> \o s ELSE <<Head(s)>> \o Insert(x, Tail(s))

(* Mutant: the series is left in the order of arrival *)
SortSlice_Keeps(s) == s

(* sort.Slice with the < comparison *)
RECURSIVE SortSlice(_)
SortSlice(s) == IF s = <<>> THEN <<>> ELSE Insert(Head(s), SortSlice(Tail(s)))

(* Mutant: the rank is rounded down *)
percentile_Floor(sortedVals, q) ==
    LET n == Len(sortedVals)
        idx == (q * n) \div 100
        clamped == IF idx < 0 THEN 0 ELSE IF idx >= n THEN n - 1 ELSE idx
    IN IF n = 0 THEN 0 ELSE sortedVals[clamped + 1]

(* ceil(q*n) - 1 clamped to [0, n-1], q given in percent; 1-based here *)
percentile(sortedVals, q) ==
    LET n == Len(sortedVals)
        idx == ((q * n + 99) \div 100) - 1
        clamped == IF idx < 0 THEN 0 ELSE IF idx >= n THEN n - 1 ELSE idx
    IN IF n = 0 THEN 0 ELSE sortedVals[clamped + 1]

percentileStats(s) ==
    [P50 |-> percentile(s, 50), P90 |-> percentile(s, 90),
     P95 |-> percentile(s, 95), P99 |-> percentile(s, 99)]

----------------------------------------------------------------------------
(* A line of the source dump: a JSON object with the MessageIDField and    *)
(* the SourceSentField, or a line that is empty or no JSON object.         *)
SrcLine(idf, sentf) == [json |-> TRUE, id |-> idf, sent |-> sentf]
BadLine == [json |-> FALSE, id |-> Absent, sent |-> Absent]

(* The valid line of id, and the dump holding one such line per id of S *)
SentAt(id) == (id - 1) * UsPerSec
Line(id) == SrcLine(Str(id), Num(SentAt(id)))
DumpOver(S) == [i \in 1..Cardinality(S) |-> Line(i)]

(* The source index as loadSourceIndex returns it for DumpOver(S): the     *)
(* record keeps the line's send time and raw bytes.                        *)
sourceRecord(id) == [SentUs |-> SentAt(id), Raw |-> Line(id)]
IndexOver(S) == [id \in S |-> sourceRecord(id)]

NoStats == [Total |-> 0, Indexed |-> 0, Bad |-> 0, Duplicates |-> 0]

(* index[msgID] = rec *)
Put(index, msgID, rec) ==
    [k \in DOMAIN index \cup {msgID} |-> IF k = msgID THEN rec ELSE index[k]]

(* Mutant: the index is looked up before the send time is read *)
ScanLine_DuplicateFirst(acc, line, unit) ==
    LET st == [acc.stats EXCEPT !.Total = @ + 1]
        bad == [index |-> acc.index, stats |-> [st EXCEPT !.Bad = @ + 1]]
    IN IF ~decodeJSONMap(line) THEN bad
       ELSE IF line.id.k = "absent" THEN bad
       ELSE IF extractString(line.id) = <<>> THEN bad
       ELSE IF extractString(line.id)[1] \in DOMAIN acc.index
       THEN [index |-> acc.index, stats |-> [st EXCEPT !.Duplicates = @ + 1]]
       ELSE IF line.sent.k = "absent" THEN bad
       ELSE IF parseFieldToEpoch(line.sent, unit) = <<>> THEN bad
       ELSE
         LET msgID == extractString(line.id)[1]
             sentUs == parseFieldToEpoch(line.sent, unit)[1]
             rec == [SentUs |-> sentUs, Raw |-> line]
         IN [index |-> Put(acc.index, msgID, rec),
             stats |-> [st EXCEPT !.Indexed = @ + 1]]

(* Mutant: a line whose id is already indexed replaces the entry *)
ScanLine_Overwrites(acc, line, unit) ==
    LET st == [acc.stats EXCEPT !.Total = @ + 1]
        bad == [index |-> acc.index, stats |-> [st EXCEPT !.Bad = @ + 1]]
    IN IF ~decodeJSONMap(line) THEN bad
       ELSE IF line.id.k = "absent" THEN bad
       ELSE IF extractString(line.id) = <<>> THEN bad
       ELSE IF line.sent.k = "absent" THEN bad
       ELSE IF parseFieldToEpoch(line.sent, unit) = <<>> THEN bad
       ELSE
         LET msgID == extractString(line.id)[1]
             sentUs == parseFieldToEpoch(line.sent, unit)[1]
             rec == [SentUs |-> sentUs, Raw |-> line]
         IN IF msgID \in DOMAIN acc.index
            THEN [index |-> Put(acc.index, msgID, rec),
                  stats |-> [st EXCEPT !.Duplicates = @ + 1]]
            ELSE [index |-> Put(acc.index, msgID, rec),
                  stats |-> [st EXCEPT !.Indexed = @ + 1]]

(* lines 247-288: the body of the scan loop for one line; acc is the index *)
(* and the stats so far                                                    *)
ScanLine(acc, line, unit) ==
    LET st == [acc.stats EXCEPT !.Total = @ + 1]
        bad == [index |-> acc.index, stats |-> [st EXCEPT !.Bad = @ + 1]]
    IN IF ~decodeJSONMap(line) THEN bad
       ELSE IF line.id.k = "absent" THEN bad
       ELSE IF extractString(line.id) = <<>> THEN bad
       ELSE IF line.sent.k = "absent" THEN bad
       ELSE IF parseFieldToEpoch(line.sent, unit) = <<>> THEN bad
       ELSE
         LET msgID == extractString(line.id)[1]
             sentUs == parseFieldToEpoch(line.sent, unit)[1]
             rec == [SentUs |-> sentUs, Raw |-> line]
         IN IF msgID \in DOMAIN acc.index
            THEN [index |-> acc.index, stats |-> [st EXCEPT !.Duplicates = @ + 1]]
            ELSE [index |-> Put(acc.index, msgID, rec),
                  stats |-> [st EXCEPT !.Indexed = @ + 1]]

(* lines 231-294, the file opened and scanned without an I/O error *)
RECURSIVE loadSourceIndex(_, _)
loadSourceIndex(lines, unit) ==
    IF lines = <<>> THEN [index |-> <<>>, stats |-> NoStats]
    ELSE ScanLine(loadSourceIndex(Front(lines), unit), Last(lines), unit)

targetCount == Cardinality(DOMAIN sourceIndex)

(* The payloads of the specification Spec *)
BasePayloads == {Garbage, Obj(Str(1), Num(0)), Obj(Str(2), Num(UsPerSec))}

(* What the concurrent producer pushes, and what was left in the hold list *)
ProducedPayloads == {Obj(Str(1), Num(0))}
StalePayloads == {Garbage}

RECURSIVE SeqsUpTo(_, _)
SeqsUpTo(S, n) ==
    IF n = 0 THEN {<<>>}
    ELSE LET shorter == SeqsUpTo(S, n - 1)
         IN shorter \cup {<<x>> \o s : x \in S, s \in {t \in shorter : Len(t) = n - 1}}

Configs ==
    [DurationSec : Durations, BlockSec : BlockSecs, Restore : BOOLEAN,
     RestoreVerify : BOOLEAN, T0Unit : {"us"}, SourceSentUnit : {"us"},
     ObsQueue : {"obs"}, SourceDump : {"dump.jsonl"}, MessageIDField : {"message_id"},
     SourceSentField : {"sent_time_us"}, T0Field : {"t0"}]

(* lines 371-376: an empty unit is replaced by auto *)
withDefaults(c) ==
    [c EXCEPT !.SourceSentUnit = IF @ = "" THEN "auto" ELSE @,
              !.T0Unit = IF @ = "" THEN "auto" ELSE @]

UnitTokens == {"auto", "s", "ms", "us"}

(* Mutant: the units are not validated *)
configError_AnyUnit(c) ==
    CASE c.ObsQueue = "" -> "obs-queue is required"
      [] c.SourceDump = "" -> "source-dump is required"
      [] c.MessageIDField = "" -> "message-id-field is required"
      [] c.SourceSentField = "" -> "source-sent-field is required"
      [] c.T0Field = "" -> "t0-field is required"
      [] OTHER -> ""

(* lines 356-382: the error of the first failing check, "" when all pass *)
configError(c) ==
    CASE c.ObsQueue = "" -> "obs-queue is required"
      [] c.SourceDump = "" -> "source-dump is required"
      [] c.MessageIDField = "" -> "message-id-field is required"
      [] c.SourceSentField = "" -> "source-sent-field is required"
      [] c.T0Field = "" -> "t0-field is required"
      [] normalizeUnit(withDefaults(c).SourceSentUnit) \notin UnitTokens
            -> "source-sent-unit must be auto, s, ms, or us"
      [] normalizeUnit(withDefaults(c).T0Unit) \notin UnitTokens
            -> "t0-unit must be auto, s, ms, or us"
      [] OTHER -> ""

----------------------------------------------------------------------------
(* Redis primitives *)

(* Mutant: the popped payload is pushed onto the tail of dst *)
RPopLPush_PushTail(src, dst) ==
    [src |-> Front(src), dst |-> Append(dst, Last(src)), val |-> Last(src)]

(* Mutant: the payload is popped from the head of src *)
RPopLPush_PopHead(src, dst) ==
    [src |-> Tail(src), dst |-> <<Head(src)>> \o dst, val |-> Head(src)]

(* Mutant: the payload is pushed and stays in src *)
RPopLPush_Copies(src, dst) ==
    [src |-> src, dst |-> <<Last(src)>> \o dst, val |-> Last(src)]

(* Mutant: the popped payload is not pushed *)
RPopLPush_Drops(src, dst) == [src |-> Front(src), dst |-> dst, val |-> Last(src)]

(* RPOPLPUSH src dst, src not empty: pop the tail of src, push it onto the head of dst *)
RPopLPush(src, dst) == [src |-> Front(src), dst |-> <<Last(src)>> \o dst, val |-> Last(src)]

----------------------------------------------------------------------------
(* The loop body, lines 453-592 *)

(* Mutant: the deadline itself is not yet past *)
DeadlinePassed_Strict(now, end) == now > end

(* line 439 *)
DeadlinePassed(now, end) == now >= end

(* Mutant: nothing is exported when every id was found *)
AfterLoop_SkipWhenAllFound(reason) == IF reason = "all-found" THEN "stats" ELSE "export"

(* after either break the function goes on at line 594 *)
AfterLoop(reason) == "export"

NewRecord ==
    [OK |-> FALSE, Error |-> "", MessageID |-> <<>>, SourceSentUs |-> <<>>,
     ResultSentUs |-> <<>>, ServeUs |-> <<>>, LatencyUs |-> <<>>]

(* Mutant: the id is only looked at once the send time is known to be there *)
MessageIDOf_AfterSendTime(raw) ==
    IF ~decodeJSONMap(raw) THEN <<>>
    ELSE IF raw.id.k = "absent" \/ raw.t0.k \in {"absent", "null"} THEN <<>>
    ELSE extractString(raw.id)

(* msgID of the payload: <<>> when the loop continues before line 493 *)
MessageIDOf(raw) ==
    IF ~decodeJSONMap(raw) THEN <<>>
    ELSE IF raw.id.k = "absent" THEN <<>>
    ELSE extractString(raw.id)

(* Mutant: the id is marked without looking it up in the index *)
MarkFound_AnyId(fnd, index, msgID) == fnd \cup {msgID}

(* Mutant: a new sighting replaces the ids found before *)
MarkFound_Forgets(fnd, index, msgID) ==
    IF msgID \in DOMAIN index /\ msgID \notin fnd THEN {msgID} ELSE fnd

(* lines 494-499 *)
MarkFound(fnd, index, msgID) ==
    IF msgID \in DOMAIN index /\ msgID \notin fnd THEN fnd \cup {msgID} ELSE fnd

(* Mutant: every sighting of an indexed id is counted *)
CountFound_EverySighting(fnd, fc, index, msgID) ==
    IF msgID \in DOMAIN index THEN fc + 1 ELSE fc

CountFound(fnd, fc, index, msgID) ==
    IF msgID \in DOMAIN index /\ msgID \notin fnd THEN fc + 1 ELSE fc

(* Mutant: the loop goes on when every id was found *)
ShouldStop_Never(fc, target) == FALSE

(* Mutant: the loop stops after any record *)
ShouldStop_Always(fc, target) == TRUE

(* line 500 *)
ShouldStop(fc, target) == fc >= target

(* Mutant: a transport error ends the loop and the restore phase follows *)
AfterDequeueError_Restores(isNil) == IF isNil THEN "loop" ELSE "restore"

(* Mutant: after redis.Nil the call is repeated without a look at the deadline *)
AfterDequeueError_Retry(isNil) == IF isNil THEN "dequeue" ELSE "failed"

(* Mutant: a redis.Nil is treated as any other error *)
AfterDequeueError_NilFatal(isNil) == "failed"

(* lines 446-451: redis.Nil continues the loop, any other error returns *)
AfterDequeueError(isNil) == IF isNil THEN "loop" ELSE "failed"

(* Mutant: an ok record after the first one is not counted *)
CountRecord_OkOnce(rec, okc, badc) ==
    IF rec.OK THEN [ok |-> IF okc = 0 THEN 1 ELSE okc, bad |-> badc]
    ELSE [ok |-> okc, bad |-> badc + 1]

(* Mutant: a bad record is not counted *)
CountRecord_SkipsBad(rec, okc, badc) ==
    IF rec.OK THEN [ok |-> okc + 1, bad |-> badc] ELSE [ok |-> okc, bad |-> badc]

(* okCount++ at line 579, badCount++ on each of the error paths *)
CountRecord(rec, okc, badc) ==
    IF rec.OK THEN [ok |-> okc + 1, bad |-> badc] ELSE [ok |-> okc, bad |-> badc + 1]

(* lines 502-509 *)
ResultSentUs(raw, unit) ==
    IF raw.t0.k = "absent" \/ raw.t0.k = "null" THEN <<>>
    ELSE parseFieldToEpoch(raw.t0, unit)

(* Mutant: a result sent after it was read is still ok *)
Classify_IgnoresFuture(raw, ts, index, unit) ==
    IF ~decodeJSONMap(raw) THEN [NewRecord EXCEPT !.Error = "json_parse_error"]
    ELSE IF raw.id.k = "absent" THEN [NewRecord EXCEPT !.Error = "missing_id"]
    ELSE IF extractString(raw.id) = <<>> THEN [NewRecord EXCEPT !.Error = "bad_id"]
    ELSE
      LET msgID == extractString(raw.id)[1]
          rec1 == [NewRecord EXCEPT !.MessageID = <<msgID>>]
          resultSentUs == ResultSentUs(raw, unit)
          rec2 == [rec1 EXCEPT !.ResultSentUs = resultSentUs]
      IN IF resultSentUs = <<>> THEN [rec2 EXCEPT !.Error = "missing_or_bad_t0"]
         ELSE IF msgID \notin DOMAIN index THEN [rec2 EXCEPT !.Error = "source_not_found"]
         ELSE
           LET sourceSentUs == index[msgID].SentUs
               rec3 == [rec2 EXCEPT !.SourceSentUs = <<sourceSentUs>>]
               serveUs == resultSentUs[1] - sourceSentUs
               lat == ts - resultSentUs[1]
           IN IF serveUs < 0 THEN [rec3 EXCEPT !.Error = "result_sent_before_source"]
              ELSE [rec3 EXCEPT !.OK = TRUE, !.ServeUs = <<serveUs>>, !.LatencyUs = <<lat>>]

(* Mutant: the index is looked up before the send time is normalized *)
Classify_IndexFirst(raw, ts, index, unit) ==
    IF ~decodeJSONMap(raw) THEN [NewRecord EXCEPT !.Error = "json_parse_error"]
    ELSE IF raw.id.k = "absent" THEN [NewRecord EXCEPT !.Error = "missing_id"]
    ELSE IF extractString(raw.id) = <<>> THEN [NewRecord EXCEPT !.Error = "bad_id"]
    ELSE
      LET msgID == extractString(raw.id)[1]
          rec1 == [NewRecord EXCEPT !.MessageID = <<msgID>>]
          resultSentUs == ResultSentUs(raw, unit)
          rec2 == [rec1 EXCEPT !.ResultSentUs = resultSentUs]
      IN IF msgID \notin DOMAIN index THEN [rec2 EXCEPT !.Error = "source_not_found"]
         ELSE IF resultSentUs = <<>> THEN [rec2 EXCEPT !.Error = "missing_or_bad_t0"]
         ELSE
           LET sourceSentUs == index[msgID].SentUs
               rec3 == [rec2 EXCEPT !.SourceSentUs = <<sourceSentUs>>]
               serveUs == resultSentUs[1] - sourceSentUs
               lat == ts - resultSentUs[1]
           IN IF serveUs < 0 THEN [rec3 EXCEPT !.Error = "result_sent_before_source"]
              ELSE IF lat < 0 THEN [rec3 EXCEPT !.Error = "result_sent_in_future"]
              ELSE [rec3 EXCEPT !.OK = TRUE, !.ServeUs = <<serveUs>>, !.LatencyUs = <<lat>>]

(* The Record written for a payload read at ts; "id" and "t0" in the error *)
(* texts stand for the configured MessageIDField and T0Field.              *)
Classify(raw, ts, index, unit) ==
    IF ~decodeJSONMap(raw) THEN [NewRecord EXCEPT !.Error = "json_parse_error"]
    ELSE IF raw.id.k = "absent" THEN [NewRecord EXCEPT !.Error = "missing_id"]
    ELSE IF extractString(raw.id) = <<>> THEN [NewRecord EXCEPT !.Error = "bad_id"]
    ELSE
      LET msgID == extractString(raw.id)[1]
          rec1 == [NewRecord EXCEPT !.MessageID = <<msgID>>]
          resultSentUs == ResultSentUs(raw, unit)
          rec2 == [rec1 EXCEPT !.ResultSentUs = resultSentUs]
      IN IF resultSentUs = <<>> THEN [rec2 EXCEPT !.Error = "missing_or_bad_t0"]
         ELSE IF msgID \notin DOMAIN index THEN [rec2 EXCEPT !.Error = "source_not_found"]
         ELSE
           LET sourceSentUs == index[msgID].SentUs
               rec3 == [rec2 EXCEPT !.SourceSentUs = <<sourceSentUs>>]
               serveUs == resultSentUs[1] - sourceSentUs
               lat == ts - resultSentUs[1]
           IN IF serveUs < 0 THEN [rec3 EXCEPT !.Error = "result_sent_before_source"]
              ELSE IF lat < 0 THEN [rec3 EXCEPT !.Error = "result_sent_in_future"]
              ELSE [rec3 EXCEPT !.OK = TRUE, !.ServeUs = <<serveUs>>, !.LatencyUs = <<lat>>]

----------------------------------------------------------------------------
(* After the loop, lines 594-665 *)

(* Mutant: the warning reports the ids found *)
Warning_ReportsFound(reason, fc, target) ==
    IF reason = "timeout" /\ fc < target THEN <<fc>> ELSE <<>>

(* lines 594-597 *)
Warning(reason, fc, target) ==
    IF reason = "timeout" /\ fc < target THEN <<target - fc>> ELSE <<>>

(* Mutant: the found ids are not left out *)
LostIDs_IgnoreFound(index, fnd) == SortStrings(DOMAIN index)

(* lines 598-604 *)
LostIDs(index, fnd) == SortStrings({msgID \in DOMAIN index : msgID \notin fnd})

(* lines 605-608 *)
LostMessages(index, lostIDs) == [i \in 1..Len(lostIDs) |-> index[lostIDs[i]].Raw]

(* Mutant: the serve block is built whether or not a record is ok *)
StatsOf_ServeAlways(tot, okc, badc, serve, lats) ==
    [TotalRead |-> tot, OK |-> okc, Bad |-> badc,
     ServeUs |-> <<percentileStats(SortSlice(serve))>>,
     LatencyUs |-> IF okc > 0 THEN <<percentileStats(SortSlice(lats))>> ELSE <<>>]

(* lines 623-662 *)
StatsOf(tot, okc, badc, serve, lats) ==
    [TotalRead |-> tot, OK |-> okc, Bad |-> badc,
     ServeUs |-> IF okc > 0 THEN <<percentileStats(SortSlice(serve))>> ELSE <<>>,
     LatencyUs |-> IF okc > 0 THEN <<percentileStats(SortSlice(lats))>> ELSE <<>>]

(* Mutant: the length read is not looked at *)
RestoreRefused_IgnoresLength(verify, cur) == FALSE

(* Mutant: the restore is refused whenever the check is asked for *)
RestoreRefused_Always(verify, cur) == verify

(* lines 669-677: the restore is refused *)
RestoreRefused(verify, cur) == verify /\ cur # 0

(* Mutant: the restore loop stops one payload early *)
RestoreFinished_OneEarly(h) == Len(h) <= 1

(* lines 681-685: RPOPLPUSH returns redis.Nil when the hold list is empty *)
RestoreFinished(h) == h = <<>>

----------------------------------------------------------------------------
(* State of one invocation before RunMeasureListLatency runs *)
Fresh(c) ==
    /\ cfg' = c
    /\ pc' = "start"
    /\ outCreated' = FALSE
    /\ found' = {} /\ foundCount' = 0
    /\ startUs' = 0 /\ endUs' = 0 /\ checkedAt' = -1
    /\ total' = 0 /\ okCount' = 0 /\ badCount' = 0
    /\ serveTimes' = <<>> /\ latencies' = <<>>
    /\ stopReason' = ""
    /\ out' = <<>> /\ warned' = <<>>
    /\ lostFile' = <<>> /\ lostRuns' = 0 /\ statsFile' = <<>>
    /\ moved' = 0 /\ err' = ""
    /\ obsR' = <<>> /\ holdR' = <<>> /\ extR' = 0

(* The variables of RunMeasureListLatency and of the lists *)
runVars == <<cfg, payloads, dump, sourceStats, outFile, outCreated, pc, run, clock, obs,
             hold, sourceIndex, found, foundCount, startUs, endUs, checkedAt,
             total, okCount, badCount, serveTimes, latencies, stopReason, out,
             warned, lostFile, lostRuns, statsFile, moved, err, obs0, hold0,
             obsR, holdR, ext, ext0, extR, past>>

(* A function called on its own: no call while RunMeasureListLatency runs *)
NoCall == [fn |-> "none"]
NoResult == [done |-> FALSE, val |-> <<>>]
Returned(val) == [done |-> TRUE, val |-> val]

Init ==
    /\ cfg \in Configs
    /\ payloads = BasePayloads
    /\ arg = NoCall /\ res = NoResult
    /\ pc = "start"
    /\ run = 1
    /\ clock = 0
    /\ obs \in SeqsUpTo(payloads, MaxQueue)
    /\ hold \in SeqsUpTo(StalePayloads, MaxHold)
    /\ dump \in {DumpOver(1..n) : n \in 0..MaxId}
    /\ sourceIndex = <<>> /\ sourceStats = NoStats
    /\ outFile = <<>> /\ outCreated = FALSE
    /\ found = {} /\ foundCount = 0
    /\ startUs = 0 /\ endUs = 0 /\ checkedAt = -1
    /\ total = 0 /\ okCount = 0 /\ badCount = 0
    /\ serveTimes = <<>> /\ latencies = <<>>
    /\ stopReason = ""
    /\ out = <<>> /\ warned = <<>>
    /\ lostFile = <<>> /\ lostRuns = 0 /\ statsFile = <<>>
    /\ moved = 0 /\ err = ""
    /\ obs0 = obs /\ hold0 = hold
    /\ obsR = <<>> /\ holdR = <<>> /\ ext = <<>> /\ ext0 = 0 /\ extR = 0
    /\ past = <<>>

Fail(e) == pc' = "failed" /\ err' = e

(* Mutant: what the writer still buffers is dropped *)
Flush_Discards(written) == <<>>

(* lines 423-426, the deferred w.Flush() and f.Close(): everything written *)
(* to w is in the file when the function has returned                      *)
Flush(written) == written

(* a return after the out file was created *)
Return(e) == Fail(e) /\ outFile' = Flush(out)

----------------------------------------------------------------------------
(* lines 353-426: the index is loaded, the deadline set, the out file created *)
Start ==
    /\ pc = "start"
    /\ IF configError(cfg) # ""
       THEN /\ Fail(configError(cfg))
            /\ UNCHANGED <<cfg, sourceIndex, sourceStats, startUs, endUs, outFile,
                           outCreated>>
       ELSE
         /\ cfg' = withDefaults(cfg)
         /\ \/ /\ Fail("open source dump")
               /\ UNCHANGED <<sourceIndex, sourceStats, startUs, endUs, outFile,
                              outCreated>>
            \/ LET loaded == loadSourceIndex(dump, cfg'.SourceSentUnit)
               IN /\ sourceIndex' = loaded.index
                  /\ sourceStats' = loaded.stats
                  /\ IF Cardinality(DOMAIN loaded.index) = 0
                     THEN /\ Fail("source dump contains no valid message_id entries")
                          /\ UNCHANGED <<startUs, endUs, outFile, outCreated>>
                     ELSE /\ startUs' = clock
                          /\ endUs' = clock + cfg.DurationSec * UsPerSec
                          /\ \/ /\ pc' = "loop" /\ err' = err
                                /\ outFile' = <<>> /\ outCreated' = TRUE
                             \/ /\ Fail("create out file")
                                /\ UNCHANGED <<outFile, outCreated>>
    /\ UNCHANGED <<payloads, arg, res, dump, run, clock, obs, hold, found, foundCount,
                   checkedAt, total, okCount, badCount, serveTimes, latencies,
                   stopReason, out, warned, lostFile, lostRuns, statsFile, moved,
                   obs0, hold0, obsR, holdR, ext, ext0, extR, past>>

(* lines 439-445: the deadline check at the top of an iteration; when the  *)
(* deadline is not reached BRPOPLPUSH is called, and pc = "dequeue" while   *)
(* the call is pending. checkedAt is the clock value the check read.       *)
LoopCheck ==
    /\ pc = "loop"
    /\ checkedAt' = clock
    /\ IF DeadlinePassed(clock, endUs)
       THEN stopReason' = "timeout" /\ pc' = AfterLoop("timeout")
       ELSE stopReason' = stopReason /\ pc' = "dequeue"
    /\ UNCHANGED <<cfg, payloads, arg, res, outCreated, dump, sourceStats, outFile, run, clock, obs, hold, sourceIndex, found, foundCount,
                   startUs, endUs, total, okCount, badCount, serveTimes, latencies,
                   out, warned, lostFile, lostRuns, statsFile, moved, err,
                   obs0, hold0, obsR, holdR, ext, ext0, extR, past>>

(* lines 445-592: BRPOPLPUSH returns a payload, which is classified and recorded *)
DequeueMsg ==
    /\ pc = "dequeue"
    /\ obs # <<>>
    /\ LET mv == RPopLPush(obs, hold)
           raw == mv.val
           ts == clock
           id == MessageIDOf(raw)
           rec == Classify(raw, ts, sourceIndex, cfg.T0Unit)
           fnd == IF id = <<>> THEN found ELSE MarkFound(found, sourceIndex, id[1])
           fc == IF id = <<>> THEN foundCount
                 ELSE CountFound(found, foundCount, sourceIndex, id[1])
           shouldStop == id # <<>> /\ ShouldStop(fc, targetCount)
       IN /\ obs' = mv.src
          /\ hold' = mv.dst
          /\ total' = total + 1
          /\ found' = fnd
          /\ foundCount' = fc
          /\ out' = Append(out, rec)
          /\ okCount' = CountRecord(rec, okCount, badCount).ok
          /\ badCount' = CountRecord(rec, okCount, badCount).bad
          /\ IF rec.OK
             THEN /\ serveTimes' = Append(serveTimes, rec.ServeUs[1])
                  /\ latencies' = Append(latencies, rec.LatencyUs[1])
             ELSE UNCHANGED <<serveTimes, latencies>>
          /\ IF shouldStop
             THEN stopReason' = "all-found" /\ pc' = AfterLoop("all-found")
             ELSE stopReason' = stopReason /\ pc' = "loop"
    /\ UNCHANGED <<cfg, payloads, arg, res, outCreated, dump, sourceStats, outFile, run, clock, sourceIndex, startUs, endUs, checkedAt,
                   warned, lostFile, lostRuns, statsFile, moved, err,
                   obs0, hold0, obsR, holdR, ext, ext0, extR, past>>

(* lines 445-449: the list stayed empty for BlockSec seconds since the call *)
(* and BRPOPLPUSH returns redis.Nil (a BlockSec of 0 waits for ever)       *)
DequeueEmpty ==
    /\ pc = "dequeue"
    /\ obs = <<>>
    /\ cfg.BlockSec > 0
    /\ clock' = IF clock >= checkedAt + cfg.BlockSec * UsPerSec
                THEN clock
                ELSE checkedAt + cfg.BlockSec * UsPerSec
    /\ pc' = AfterDequeueError(TRUE)
    /\ UNCHANGED <<cfg, payloads, arg, res, outCreated, dump, sourceStats, outFile, run, obs, hold, sourceIndex, found, foundCount,
                   startUs, endUs, checkedAt, total, okCount, badCount, serveTimes,
                   latencies, stopReason, out, warned, lostFile, lostRuns, statsFile,
                   moved, err, obs0, hold0, obsR, holdR, ext, ext0, extR, past>>

(* line 450: BRPOPLPUSH fails with a transport error *)
DequeueFail ==
    /\ pc = "dequeue"
    /\ pc' = AfterDequeueError(FALSE)
    /\ err' = "brpoplpush"
    /\ outFile' = Flush(out)
    /\ UNCHANGED <<cfg, payloads, arg, res, outCreated, dump, sourceStats, run, clock, obs, hold, sourceIndex, found, foundCount,
                   startUs, endUs, checkedAt, total, okCount, badCount, serveTimes,
                   latencies, stopReason, out, warned, lostFile, lostRuns, statsFile,
                   moved, obs0, hold0, obsR, holdR, ext, ext0, extR, past>>

(* lines 594-612: the warning and the lost manifest *)
Export ==
    /\ pc = "export"
    /\ warned' = Warning(stopReason, foundCount, targetCount)
    /\ lostRuns' = lostRuns + 1
    /\ \/ /\ lostFile' = <<LostMessages(sourceIndex, LostIDs(sourceIndex, found))>>
          /\ pc' = "stats" /\ err' = err /\ outFile' = outFile
       \/ /\ Return("write lost json")
          /\ lostFile' = lostFile
    /\ UNCHANGED <<cfg, payloads, arg, res, outCreated, dump, sourceStats, run, clock, obs, hold, sourceIndex, found, foundCount,
                   startUs, endUs, checkedAt, total, okCount, badCount, serveTimes,
                   latencies, stopReason, out, statsFile, moved,
                   obs0, hold0, obsR, holdR, ext, ext0, extR, past>>

(* lines 614-668: the stats file; then the restore phase starts if requested *)
Stats ==
    /\ pc = "stats"
    /\ IF okCount > 0
       THEN /\ serveTimes' = SortSlice(serveTimes)
            /\ latencies' = SortSlice(latencies)
       ELSE UNCHANGED <<serveTimes, latencies>>
    /\ \/ /\ statsFile' = <<StatsOf(total, okCount, badCount, serveTimes, latencies)>>
          /\ err' = err
          /\ pc' = IF cfg.Restore THEN (IF cfg.RestoreVerify THEN "verify" ELSE "restore")
                   ELSE "done"
          /\ outFile' = IF cfg.Restore THEN outFile ELSE Flush(out)
          /\ IF cfg.Restore
             THEN obsR' = obs /\ holdR' = hold /\ extR' = Len(ext)
             ELSE UNCHANGED <<obsR, holdR, extR>>
       \/ /\ Return("write stats json")
          /\ UNCHANGED <<statsFile, obsR, holdR, extR>>
    /\ UNCHANGED <<cfg, payloads, arg, res, outCreated, dump, sourceStats, run, clock, obs, hold, sourceIndex, found, foundCount,
                   startUs, endUs, checkedAt, total, okCount, badCount,
                   stopReason, out, warned, lostFile, lostRuns, moved,
                   obs0, hold0, ext, ext0, past>>

(* lines 669-677: LLEN of the observation list under RestoreVerify *)
Verify ==
    /\ pc = "verify"
    /\ \/ IF RestoreRefused(cfg.RestoreVerify, Len(obs))
          THEN Return("refuse restore")
          ELSE pc' = "restore" /\ err' = err /\ outFile' = outFile
       \/ Return("llen verify")
    /\ UNCHANGED <<cfg, payloads, arg, res, outCreated, dump, sourceStats, run, clock, obs, hold, sourceIndex, found, foundCount,
                   startUs, endUs, checkedAt, total, okCount, badCount, serveTimes,
                   latencies, stopReason, out, warned, lostFile, lostRuns, statsFile,
                   moved, obs0, hold0, obsR, holdR, ext, ext0, extR, past>>

(* lines 680-692: one RPOPLPUSH hq -> ObsQueue that returns a payload *)
RestoreMove ==
    /\ pc = "restore"
    /\ ~RestoreFinished(hold)
    /\ LET mv == RPopLPush(hold, obs)
       IN hold' = mv.src /\ obs' = mv.dst
    /\ moved' = moved + 1
    /\ UNCHANGED <<cfg, payloads, arg, res, outCreated, dump, sourceStats, outFile, pc, run, clock, sourceIndex, found, foundCount,
                   startUs, endUs, checkedAt, total, okCount, badCount, serveTimes,
                   latencies, stopReason, out, warned, lostFile, lostRuns, statsFile,
                   err, obs0, hold0, obsR, holdR, ext, ext0, extR, past>>

(* lines 683-685, 693-695: RPOPLPUSH returns redis.Nil, the restore is over *)
RestoreDone ==
    /\ pc = "restore"
    /\ RestoreFinished(hold)
    /\ pc' = "done"
    /\ outFile' = Flush(out)
    /\ UNCHANGED <<cfg, payloads, arg, res, outCreated, dump, sourceStats, run, clock, obs, hold, sourceIndex, found, foundCount,
                   startUs, endUs, checkedAt, total, okCount, badCount, serveTimes,
                   latencies, stopReason, out, warned, lostFile, lostRuns, statsFile,
                   moved, err, obs0, hold0, obsR, holdR, ext, ext0, extR, past>>

(* line 686: RPOPLPUSH fails with a transport error, the restore is interrupted *)
RestoreFail ==
    /\ pc = "restore"
    /\ Return("rpoplpush restore")
    /\ UNCHANGED <<cfg, payloads, arg, res, outCreated, dump, sourceStats, run, clock, obs, hold, sourceIndex, found, foundCount,
                   startUs, endUs, checkedAt, total, okCount, badCount, serveTimes,
                   latencies, stopReason, out, warned, lostFile, lostRuns, statsFile,
                   moved, obs0, hold0, obsR, holdR, ext, ext0, extR, past>>

----------------------------------------------------------------------------
(* The environment *)

(* internal.NowMicros advances; only the loop reads the clock *)
Tick ==
    /\ pc \in {"loop", "dequeue"}
    /\ clock < endUs
    /\ clock' = clock + UsPerSec
    /\ UNCHANGED <<cfg, payloads, arg, res, outCreated, dump, sourceStats, outFile, pc, run, obs, hold, sourceIndex, found, foundCount,
                   startUs, endUs, checkedAt, total, okCount, badCount, serveTimes,
                   latencies, stopReason, out, warned, lostFile, lostRuns, statsFile,
                   moved, err, obs0, hold0, obsR, holdR, ext, ext0, extR, past>>

(* Another client of the Redis server pushes a payload onto the observation list *)
Produce ==
    /\ pc \notin {"start", "done", "failed"}
    /\ Len(ext) < MaxExt
    /\ \E m \in ProducedPayloads :
          /\ \/ obs' = <<m>> \o obs
             \/ obs' = Append(obs, m)
          /\ ext' = Append(ext, m)
    /\ UNCHANGED <<cfg, payloads, arg, res, outCreated, dump, sourceStats, outFile, pc, run, clock, hold, sourceIndex, found, foundCount,
                   startUs, endUs, checkedAt, total, okCount, badCount, serveTimes,
                   latencies, stopReason, out, warned, lostFile, lostRuns, statsFile,
                   moved, err, obs0, hold0, obsR, holdR, ext0, extR, past>>

(* The program is invoked again on the same Redis server and the same dump *)
Rerun ==
    /\ pc \in {"done", "failed"}
    /\ run = 1
    /\ run' = run + 1
    /\ \E c \in Configs : Fresh(c)
    /\ obs0' = obs /\ hold0' = hold /\ ext0' = Len(ext)
    /\ past' = Append(past, [err |-> err, moved |-> moved, Restore |-> cfg.Restore,
                             holdR |-> Len(holdR), hold |-> Len(hold)])
    /\ UNCHANGED <<payloads, arg, res, dump, sourceStats, outFile, clock, obs, hold, sourceIndex, ext>>

Next ==
    \/ Start
    \/ LoopCheck
    \/ DequeueMsg
    \/ DequeueEmpty
    \/ DequeueFail
    \/ Export
    \/ Stats
    \/ Verify
    \/ RestoreMove
    \/ RestoreDone
    \/ RestoreFail
    \/ Tick
    \/ Produce

Spec == Init /\ [][Next]_vars

(* The scheduling of the loop: the deadline check of line 439 and the      *)
(* BRPOPLPUSH of line 445 are steps of the one goroutine and are taken     *)
(* when they can be; BRPOPLPUSH returns the payload when there is one and  *)
(* redis.Nil after BlockSec when there is none; the clock advances. A      *)
(* transport error may happen, and need not.                               *)
LoopFairness ==
    /\ WF_vars(LoopCheck)
    /\ WF_vars(DequeueMsg)
    /\ WF_vars(DequeueEmpty)
    /\ WF_vars(Tick)

(* The invocations without a restore phase, on an empty hold list *)
InitLive == Init /\ ~cfg.Restore /\ ~cfg.RestoreVerify /\ hold = <<>>

NextLive ==
    \/ Start
    \/ LoopCheck
    \/ DequeueMsg
    \/ DequeueEmpty
    \/ DequeueFail
    \/ Export
    \/ Stats
    \/ Tick
    \/ Produce

SpecLive == InitLive /\ [][NextLive]_vars /\ LoopFairness

(* Consecutive invocations: the restore phase run again *)
InitRepeat ==
    /\ Init
    /\ cfg.Restore
    /\ dump = DumpOver(Ids)
    /\ obs \in SeqsUpTo(ProducedPayloads, RepeatQueue)

NextRepeat == Next \/ Rerun

SpecRepeat == InitRepeat /\ [][NextRepeat]_vars

(* One message of every shape the classification tells apart, read under   *)
(* each unit: the id absent, null, blank, a number, a string, not indexed; *)
(* the send time absent, null, blank, a timestamp, a broken timestamp, any *)
(* other text, a number before the source, in the future, in between.      *)
ClassifyUnits == {"auto", "ms", "us"}

ClassifyPayloads ==
    {Garbage,
     Obj(Absent, Num(0)), Obj(Null, Num(0)), Obj(Blank, Num(0)),
     Obj(Num(1), Num(0)), Obj(Str(MaxId + 1), Num(0)),
     Obj(Str(MaxId + 1), Blank), Obj(Str(MaxId + 1), Absent),
     Obj(Str(1), Absent), Obj(Str(1), Null), Obj(Str(1), Blank),
     Obj(Str(1), IsoBad), Obj(Str(1), Text), Obj(Str(1), Iso(0)),
     Obj(Str(1), Iso(1000)), Obj(Str(1), Num(0)), Obj(Str(1), Num(1000)),
     Obj(Str(2), Num(0)), Obj(Str(2), Num(1000)), Obj(Str(2), Num(UsPerSec)),
     Obj(Str(2), Num(2 * UsPerSec))}

(* The counters, files and history of an invocation not yet started *)
NotRun ==
    /\ pc = "start"
    /\ run = 1
    /\ sourceIndex = <<>> /\ sourceStats = NoStats
    /\ outFile = <<>> /\ outCreated = FALSE
    /\ found = {} /\ foundCount = 0
    /\ startUs = 0 /\ endUs = 0 /\ checkedAt = -1
    /\ total = 0 /\ okCount = 0 /\ badCount = 0
    /\ serveTimes = <<>> /\ latencies = <<>>
    /\ stopReason = ""
    /\ out = <<>> /\ warned = <<>>
    /\ lostFile = <<>> /\ lostRuns = 0 /\ statsFile = <<>>
    /\ moved = 0 /\ err = ""
    /\ obs0 = obs /\ hold0 = hold
    /\ obsR = <<>> /\ holdR = <<>> /\ ext = <<>> /\ ext0 = 0 /\ extR = 0
    /\ past = <<>>

Unstarted == NotRun /\ arg = NoCall /\ res = NoResult

InitClassify ==
    /\ cfg \in {[c EXCEPT !.T0Unit = u] : c \in Configs, u \in ClassifyUnits}
    /\ payloads = ClassifyPayloads
    /\ clock = 0
    /\ obs \in {<<m>> : m \in payloads}
    /\ hold = <<>>
    /\ dump = DumpOver(Ids)
    /\ Unstarted

SpecClassify == InitClassify /\ [][Next]_vars

(* The system under test answers every message of the dump once, d         *)
(* microseconds after the source sent it, and the invocation starts when   *)
(* all the answers were sent.                                              *)
Delays == {0, 5000}

EndToEndPayloads(d) == {Obj(Str(id), Num(SentAt(id) + d)) : id \in Ids}

InitEndToEnd ==
    /\ cfg \in Configs
    /\ payloads \in {EndToEndPayloads(d) : d \in Delays}
    /\ clock = MaxId * UsPerSec
    /\ obs \in SeqsUpTo(payloads, MaxQueue)
    /\ hold \in SeqsUpTo(StalePayloads, MaxHold)
    /\ dump \in {DumpOver(1..n) : n \in 0..MaxId}
    /\ Unstarted

SpecEndToEnd == InitEndToEnd /\ [][Next]_vars

(* Source dumps of up to MaxDump lines: unusable lines, lines without id   *)
(* or with an unusable send time, and valid lines that repeat an id with   *)
(* other bytes (another send time, the id as a number).                    *)
IndexLines ==
    {BadLine, SrcLine(Absent, Num(0)), SrcLine(Str(1), Blank),
     SrcLine(Str(1), Num(0)), SrcLine(Str(1), Num(UsPerSec)),
     SrcLine(Num(1), Num(2 * UsPerSec)), SrcLine(Str(2), Num(UsPerSec))}

InitIndex ==
    /\ cfg \in {c \in Configs : c.Restore /\ c.RestoreVerify}
    /\ payloads = BasePayloads
    /\ clock = 0
    /\ obs \in {<<>>, <<Obj(Str(1), Num(UsPerSec))>>}
    /\ hold = <<>>
    /\ dump \in SeqsUpTo(IndexLines, MaxDump)
    /\ Unstarted

SpecIndex == InitIndex /\ [][Next]_vars

(* Configurations as the flags can give them: a required name left empty,  *)
(* a unit left empty, written in another case or with spaces, or unknown.  *)
ConfigCases ==
    LET Names == {"ObsQueue", "SourceDump", "MessageIDField", "SourceSentField",
                  "T0Field"}
    IN Configs
       \cup {[c EXCEPT ![f] = ""] : c \in Configs, f \in Names}
       \cup {[c EXCEPT !.SourceSentUnit = u] : c \in Configs, u \in {"", " US ", "min"}}
       \cup {[c EXCEPT !.T0Unit = u] : c \in Configs, u \in {"", "MS", "min"}}
       \cup {[c EXCEPT !.ObsQueue = "", !.T0Unit = "min"] : c \in Configs}

InitConfig ==
    /\ cfg \in ConfigCases
    /\ payloads = BasePayloads
    /\ clock = 0
    /\ obs \in SeqsUpTo(ProducedPayloads, MaxQueue)
    /\ hold \in SeqsUpTo(StalePayloads, MaxHold)
    /\ dump \in {DumpOver(1..n) : n \in 0..MaxId}
    /\ Unstarted

SpecConfig == InitConfig /\ [][Next]_vars

(* Runs over messages with an indexed id of every outcome: no send time,  *)
(* ok, sent before the source, and sent in the future while the clock is   *)
(* below a second.                                                         *)
OutcomePayloads ==
    {Obj(Str(1), Absent), Obj(Str(1), Num(0)), Obj(Str(2), Num(0)),
     Obj(Str(2), Num(UsPerSec))}

InitOutcomes ==
    /\ cfg \in Configs
    /\ payloads = OutcomePayloads
    /\ clock = 0
    /\ obs \in SeqsUpTo(payloads, MaxQueue)
    /\ hold = <<>>
    /\ dump \in {DumpOver(1..n) : n \in 1..MaxId}
    /\ Unstarted

SpecOutcomes == InitOutcomes /\ [][Next]_vars

----------------------------------------------------------------------------
(* The pure functions called on their own: arg holds the arguments, res    *)
(* the result once the call has returned. RunMeasureListLatency is never   *)
(* started in these behaviours.                                            *)

Idle ==
    /\ cfg \in {c \in Configs : ~c.Restore /\ c.DurationSec = 0}
    /\ payloads = {}
    /\ clock = 0
    /\ obs = <<>> /\ hold = <<>> /\ dump = <<>>
    /\ NotRun

(* int64 holds every integer of up to 18 decimal digits *)
Int64Digits == 18

RECURSIVE Digits(_)
Digits(n) == IF n < 10 THEN 1 ELSE 1 + Digits(n \div 10)

Abs(n) == IF n < 0 THEN -n ELSE n

(* The mantissas lie on both sides of 10^9; with the exponents the values  *)
(* lie on both sides of 10^9, 10^12 and 10^15.                             *)
Mantissas == {-1700000000, -5, 0, 123, 999999999, 1000000000, 1700000000}
Exponents == {0, 3, 6}

NormalizeValues ==
    {Null, Blank, IsoBad, Text, Frac}
    \cup {NumE(m, e) : m \in Mantissas, e \in Exponents}
    \cup {NumStr(m, e) : m \in Mantissas, e \in Exponents}
    \cup {IsoE(m, e) : m \in Mantissas, e \in Exponents}

NormalizeUnits == {"auto", "s", "ms", "us", "Auto", "US", " ms ", "ns", ""}

(* The factor of an explicit unit as a decimal exponent *)
UnitExp(u) == CASE u = "s" -> 6 [] u = "ms" -> 3 [] OTHER -> 0

(* The product with the factor of the unit does not leave int64 *)
Fits(v, unit) ==
    Digits(Abs(v.v)) + v.e + UnitExp(normalizeUnit(unit)) <= Int64Digits

NormalizeArgs ==
    {[fn |-> "parseFieldToEpoch", v |-> v, unit |-> u] :
        <<v, u>> \in {x \in NormalizeValues \X NormalizeUnits : Fits(x[1], x[2])}}

CallNormalize ==
    /\ arg.fn = "parseFieldToEpoch"
    /\ ~res.done
    /\ res' = Returned(normalizeEpoch(arg.v, arg.unit))
    /\ UNCHANGED <<arg, runVars>>

InitNormalize == Idle /\ arg \in NormalizeArgs /\ res = NoResult

NextNormalize == CallNormalize

SpecNormalize == InitNormalize /\ [][NextNormalize]_vars

(* percentile on ascending sequences of up to MaxSamples values: from 11   *)
(* values on p90 and p95 differ, from 21 on p95 and p99.                   *)
MaxSamples == 21

Ramp(n, base, step) == [i \in 1..n |-> base + step * (i - 1)]

Quantiles == {50, 90, 95, 99}

PercentileArgs ==
    {[fn |-> "percentile", sortedVals |-> Ramp(n, b, st), q |-> q] :
        n \in 0..MaxSamples, b \in {0, 7}, st \in {0, 1, 3}, q \in Quantiles}

CallPercentile ==
    /\ arg.fn = "percentile"
    /\ ~res.done
    /\ res' = Returned(percentile(arg.sortedVals, arg.q))
    /\ UNCHANGED <<arg, runVars>>

InitPercentile == Idle /\ arg \in PercentileArgs /\ res = NoResult

NextPercentile == CallPercentile

SpecPercentile == InitPercentile /\ [][NextPercentile]_vars

(* parseConfig on argument lists of up to MaxArgs tokens *)
MaxArgs == 3

modeRun == "run"
modeLoadDumpAndRewrite == "load-dump-and-rewrite"
modeMeasureListLatency == "measure-list-latency"

isMode(value) == value \in {modeRun, modeLoadDumpAndRewrite, modeMeasureListLatency}

ArgTokens ==
    {modeRun, modeLoadDumpAndRewrite, modeMeasureListLatency, "-mode", "--mode",
     "-mode=same", "--mode=increment", "same", "increment", "-debug"}

(* strings.TrimPrefix of "-mode=" and "--mode=" over the tokens: <<>> when *)
(* the token has neither prefix                                            *)
ModeFlagValue(a) ==
    CASE a = "-mode=same" -> <<"same">>
      [] a = "--mode=increment" -> <<"increment">>
      [] OTHER -> <<>>

(* the loop of extractMode from args[i] on, 1-based *)
RECURSIVE extractFrom(_, _, _)
extractFrom(args, i, acc) ==
    IF i > Len(args) THEN acc
    ELSE CASE args[i] \in {"-mode", "--mode"} ->
                IF i + 1 > Len(args)
                THEN [err |-> "mode value missing", mode |-> "", modeSet |-> FALSE,
                      rest |-> <<>>]
                ELSE extractFrom(args, i + 2,
                                 [acc EXCEPT !.mode = args[i + 1], !.modeSet = TRUE])
           [] ModeFlagValue(args[i]) # <<>> ->
                extractFrom(args, i + 1,
                            [acc EXCEPT !.mode = ModeFlagValue(args[i])[1],
                                        !.modeSet = TRUE])
           [] OTHER ->
                extractFrom(args, i + 1, [acc EXCEPT !.rest = Append(@, args[i])])

extractMode(args) ==
    extractFrom(args, 1, [err |-> "", mode |-> "", modeSet |-> FALSE, rest |-> <<>>])

(* config.Load without environment: LoadDump.Mode *)
DefaultRewriteMode == "increment"

(* fs.Parse over the tokens: -debug is a common flag, -mode is bound to    *)
(* LoadDump.Mode when the load-dump flags are bound, and the first token   *)
(* that is no flag ends the parse.                                         *)
RECURSIVE flagParse(_, _, _)
flagParse(rest, loadDumpFlags, rewrite) ==
    IF rest = <<>> THEN [err |-> "", rewrite |-> rewrite]
    ELSE CASE Head(rest) = "-debug" -> flagParse(Tail(rest), loadDumpFlags, rewrite)
           [] Head(rest) \in {"-mode", "--mode"} ->
                IF ~loadDumpFlags
                THEN [err |-> "flag provided but not defined", rewrite |-> rewrite]
                ELSE IF Len(rest) < 2
                THEN [err |-> "flag needs an argument", rewrite |-> rewrite]
                ELSE flagParse(Tail(Tail(rest)), loadDumpFlags, rest[2])
           [] ModeFlagValue(Head(rest)) # <<>> ->
                IF ~loadDumpFlags
                THEN [err |-> "flag provided but not defined", rewrite |-> rewrite]
                ELSE flagParse(Tail(rest), loadDumpFlags, ModeFlagValue(Head(rest))[1])
           [] OTHER -> [err |-> "", rewrite |-> rewrite]

ParseFailed(e) == [err |-> e, mode |-> "", rewrite |-> ""]

parseConfig(args) ==
    LET x == extractMode(args)
        positional == x.rest # <<>> /\ isMode(x.rest[1])
        named == IF positional THEN x.rest[1] ELSE x.mode
        rest == IF positional THEN Tail(x.rest) ELSE x.rest
        mode == IF named = "" THEN modeRun ELSE named
        parsed == flagParse(rest, mode = modeLoadDumpAndRewrite, DefaultRewriteMode)
    IN IF x.err # "" THEN ParseFailed(x.err)
       ELSE IF positional /\ x.modeSet /\ x.rest[1] # x.mode
       THEN ParseFailed("mode conflict")
       ELSE IF parsed.err # "" THEN ParseFailed(parsed.err)
       ELSE [err |-> "", mode |-> mode, rewrite |-> parsed.rewrite]

ConfigArgs ==
    {[fn |-> "parseConfig", args |-> a] : a \in SeqsUpTo(ArgTokens, MaxArgs)}

CallParseConfig ==
    /\ arg.fn = "parseConfig"
    /\ ~res.done
    /\ res' = Returned(parseConfig(arg.args))
    /\ UNCHANGED <<arg, runVars>>

InitArgs == Idle /\ arg \in ConfigArgs /\ res = NoResult

NextArgs == CallParseConfig

SpecArgs == InitArgs /\ [][NextArgs]_vars

----------------------------------------------------------------------------
(* Helpers of the properties *)

Keys == DOMAIN sourceIndex
Indexed == Cardinality(DOMAIN sourceIndex)

RECURSIVE Count(_, _)
Count(s, m) ==
    IF s = <<>> THEN 0 ELSE (IF Head(s) = m THEN 1 ELSE 0) + Count(Tail(s), m)

AllPayloads == payloads \cup ProducedPayloads \cup StalePayloads

(* The payloads pushed by the other client after the first k *)
ExtSince(k) == SubSeq(ext, k + 1, Len(ext))

TransportErrors == {"brpoplpush", "llen verify", "rpoplpush restore"}
RestoreErrors == {"llen verify", "refuse restore", "rpoplpush restore"}

Ended == pc \in {"done", "failed"}

(* The loop of this invocation was entered *)
LoopStarted ==
    /\ pc # "start"
    /\ err \notin {"open source dump", "source dump contains no valid message_id entries",
                   "create out file"}

(* The restore phase of this invocation was entered *)
RestoreStarted ==
    \/ pc \in {"verify", "restore"}
    \/ pc = "done" /\ cfg.Restore
    \/ pc = "failed" /\ err \in RestoreErrors

(* The earlier invocation was interrupted in its restore loop *)
Interrupted == run = 2 /\ past[1].err = "rpoplpush restore"

(* ... after at least one move and with payloads left in the hold list *)
InterruptedMidway == Interrupted /\ past[1].moved >= 1 /\ past[1].hold >= 1

----------------------------------------------------------------------------
(* C1. Complementarity: once the lost manifest is written, its length plus *)
(* the number of found ids equals the number of indexed records, whatever  *)
(* payloads were dequeued and whichever way the loop stopped.              *)
C1_Complementarity ==
    lostFile # <<>> =>
        Len(lostFile[1]) + Cardinality(found \cap Keys) = Indexed

C1_Witness ==
    /\ lostFile # <<>>
    /\ stopReason = "timeout"
    /\ found # {}
    /\ Len(lostFile[1]) >= 1
    /\ badCount >= 1

(* C2 as stated: every invocation whose loop was started ends with the     *)
(* lost export executed exactly once, also when the dequeue failed.        *)
C2_Original == (Ended /\ LoopStarted) => lostRuns = 1

(* C2 amended. The lost export runs exactly once in every invocation whose *)
(* loop ended by timeout or all-found, right after the loop; it does not   *)
(* run when a transport failure of the dequeue aborts the invocation.      *)
C2_ExportOnce ==
    /\ lostRuns <= 1
    /\ pc \in {"start", "loop", "dequeue", "export"} => lostRuns = 0
    /\ pc \in {"stats", "verify", "restore", "done"} => lostRuns = 1
    /\ (Ended /\ stopReason \in {"timeout", "all-found"}) => lostRuns = 1
    /\ (Ended /\ LoopStarted /\ stopReason = "") => (err = "brpoplpush" /\ lostRuns = 0)
    /\ err = "brpoplpush" => (lostRuns = 0 /\ lostFile = <<>>)

C2_Witness ==
    /\ pc = "failed"
    /\ err = "brpoplpush"
    /\ total >= 1
    /\ lostRuns = 0

(* C3. The lost manifest holds the raw line of every indexed id that was   *)
(* not found, once each, and nothing else, in strictly ascending id order. *)
C3_LostManifest ==
    lostFile # <<>> =>
        LET lost == lostFile[1]
        IN /\ \A i \in 1..Len(lost) :
                 \E id \in Keys \ found : lost[i] = sourceIndex[id].Raw
           /\ \A id \in Keys \ found :
                 Cardinality({i \in 1..Len(lost) : lost[i] = sourceIndex[id].Raw}) = 1
           /\ \A i \in 1..Len(lost), j \in 1..Len(lost) :
                 i < j => lost[i].id.v < lost[j].id.v

C3_Witness ==
    /\ lostFile # <<>>
    /\ Len(lostFile[1]) >= 2
    /\ total >= 1

(* C4. Set containment: the found set is a subset of the keys of the       *)
(* source index, the found counter is its size, and it never exceeds the   *)
(* number of indexed records.                                              *)
C4_SetContainment ==
    /\ found \subseteq Keys
    /\ foundCount = Cardinality(found)
    /\ foundCount <= Indexed

C4_Witness ==
    /\ found # {}
    /\ \E i \in 1..Len(out) : out[i].Error = "source_not_found"

(* C5. Restore refusal: when the restore was requested with RestoreVerify  *)
(* and the observation list is not empty at the check, the step that       *)
(* leaves the check fails with an error, and it moves nothing: moved stays *)
(* 0 and both lists are as they were.                                      *)
C5_RestoreRefusal ==
    [][(pc = "verify" /\ cfg.RestoreVerify /\ Len(obs) # 0 /\ pc' # "verify")
          => (pc' = "failed" /\ err' \in {"refuse restore", "llen verify"}
              /\ moved' = 0 /\ obs' = obs /\ hold' = hold)]_vars

C5_Witness ==
    /\ pc = "failed"
    /\ err = "refuse restore"
    /\ hold # <<>>
    /\ hold = holdR
    /\ total >= 1

(* C6. A restore that is not refused and meets no transport error ends     *)
(* with the hold list empty and moved_back equal to the length the hold    *)
(* list had when the restore began, payloads left by earlier runs          *)
(* included; the observation list is the one of that moment with exactly   *)
(* those payloads pushed onto its head (and the payloads another client    *)
(* pushed meanwhile). While it runs, moved plus the length of the hold     *)
(* list stays that length.                                                 *)
C6_RestoreCompletes ==
    /\ pc = "restore" => moved + Len(hold) = Len(holdR)
    /\ (pc = "done" /\ cfg.Restore) =>
          /\ hold = <<>>
          /\ moved = Len(holdR)
          /\ ExtSince(extR) = <<>> => obs = holdR \o obsR
          /\ \A m \in AllPayloads :
                Count(obs, m) = Count(obsR, m) + Count(holdR, m) + Count(ExtSince(extR), m)

C6_Witness ==
    /\ pc = "done"
    /\ cfg.Restore
    /\ hold0 # <<>>
    /\ total >= 1
    /\ obsR # <<>>
    /\ moved = Len(hold0) + total

(* C7. Quarantine round trip: with no other client and an initially empty  *)
(* hold list, a run that completes with restore enabled leaves in the      *)
(* observation list the same multiset of payloads it held before the run,  *)
(* and leaves the hold list empty.                                         *)
C7_RoundTrip ==
    (pc = "done" /\ cfg.Restore /\ ExtSince(ext0) = <<>> /\ hold0 = <<>>) =>
        /\ hold = <<>>
        /\ \A m \in AllPayloads : Count(obs, m) = Count(obs0, m)

C7_Witness ==
    /\ pc = "done"
    /\ cfg.Restore
    /\ ExtSince(ext0) = <<>>
    /\ hold0 = <<>>
    /\ total >= 1
    /\ obs # obs0

(* C8 as stated: a restore phase that starts with the hold list empty      *)
(* never returns an error, whatever the observation list holds and         *)
(* whatever RestoreVerify is (transport errors aside).                     *)
C8_Original ==
    (RestoreStarted /\ holdR = <<>> /\ err \notin TransportErrors) => err = ""

(* C8 amended. A restore phase that starts with the hold list empty moves  *)
(* nothing; it reports moved_back = 0 and returns no error unless a        *)
(* transport error occurs or RestoreVerify is set and the observation list *)
(* is not empty, in which case it is refused. This holds for each of two   *)
(* restore phases in succession.                                           *)
C8_IdempotentRestore ==
    /\ (RestoreStarted /\ holdR = <<>>) =>
          /\ moved = 0
          /\ hold = <<>>
          /\ pc = "done" => err = ""
    /\ err = "refuse restore" => (cfg.RestoreVerify /\ Len(obs) # 0 /\ moved = 0)
    /\ (RestoreStarted /\ holdR = <<>> /\ Ended /\ ~(cfg.RestoreVerify /\ Len(obs) # 0))
          => (pc = "done" \/ err \in TransportErrors)

C8_Witness ==
    /\ run = 2
    /\ past[1].err = "" /\ past[1].Restore /\ past[1].holdR = 0 /\ past[1].moved = 0
    /\ pc = "done" /\ cfg.Restore /\ holdR = <<>> /\ moved = 0
    /\ obs # <<>>

(* C9 as stated: after a restore interrupted after k moves, a re-run that   *)
(* reaches its restore phase moves the remaining payloads back without     *)
(* error (transport errors aside).                                         *)
C9_Original ==
    (InterruptedMidway /\ RestoreStarted /\ Ended /\ err \notin TransportErrors)
        => (err = "" /\ hold = <<>>)

(* C9 amended. Every payload is in exactly one of the two lists at every   *)
(* moment, also after a restore interrupted after k moves: the lists       *)
(* together hold what they held when the invocation started plus what the  *)
(* other client pushed. A re-run whose restore is not refused (no          *)
(* RestoreVerify, or the observation list empty at the check) and meets no *)
(* transport error moves all payloads of the hold list back; with          *)
(* RestoreVerify and a non-empty observation list it is refused.           *)
C9_ResumableRestore ==
    /\ \A m \in AllPayloads :
          Count(obs, m) + Count(hold, m)
             = Count(obs0, m) + Count(hold0, m) + Count(ExtSince(ext0), m)
    /\ (Interrupted /\ RestoreStarted /\ Ended) =>
          \/ pc = "done" /\ err = "" /\ hold = <<>> /\ moved = Len(holdR)
          \/ err \in TransportErrors
          \/ err = "refuse restore" /\ cfg.RestoreVerify /\ Len(obs) # 0 /\ hold = holdR

C9_Witness ==
    /\ InterruptedMidway
    /\ pc = "done" /\ cfg.Restore
    /\ moved >= 1

(* C10. The deadline is checked before every dequeue attempt: an attempt   *)
(* is made only after a check that read a clock value before the deadline, *)
(* the loop stops with timeout exactly on a check that read a value at or  *)
(* after it, and with DurationSec = 0 the loop moves nothing: total_read   *)
(* is 0, nothing is recorded and the hold list is as the run found it.     *)
C10_DeadlineFirst ==
    /\ pc = "dequeue" => checkedAt < endUs
    /\ stopReason = "timeout" => checkedAt >= endUs
    /\ (LoopStarted /\ cfg.DurationSec = 0) =>
          /\ pc # "dequeue"
          /\ total = 0
          /\ out = <<>>
          /\ pc \in {"loop", "export", "stats"} => hold = hold0

C10_Witness ==
    /\ pc = "export"
    /\ stopReason = "timeout"
    /\ cfg.DurationSec > 0
    /\ total >= 1
    /\ obs # <<>>

(* C11. The loop is left only by the timeout exit, by the all-found exit   *)
(* or by a transport failure of the dequeue: the timeout exit is taken at  *)
(* the deadline check and reads nothing, the all-found exit is taken by    *)
(* the record whose id completes the found set. A record that is not ok    *)
(* and does not complete the found set leaves the loop running, and once   *)
(* the loop is left the invocation never returns to it.                    *)
C11_LoopExits ==
    [][run' = run =>
         /\ (pc \in {"loop", "dequeue"} /\ pc' \notin {"loop", "dequeue"}) =>
               \/ /\ pc = "loop" /\ pc' = "export"
                  /\ stopReason' = "timeout" /\ total' = total
               \/ /\ pc = "dequeue" /\ pc' = "export"
                  /\ stopReason' = "all-found" /\ total' = total + 1
                  /\ found' = DOMAIN sourceIndex /\ found' # found
               \/ /\ pc = "dequeue" /\ pc' = "failed" /\ err' = "brpoplpush"
         /\ (pc = "dequeue" /\ total' = total + 1 /\ ~out'[Len(out')].OK
               /\ (found' = found \/ found' # DOMAIN sourceIndex)) => pc' = "loop"
         /\ pc \in {"export", "stats", "verify", "restore", "done", "failed"} =>
               pc' \notin {"start", "loop", "dequeue"}
      ]_vars

C11_Witness ==
    /\ pc = "dequeue"
    /\ badCount >= 2
    /\ \E i \in 1..Len(out) : out[i].Error = "json_parse_error"
    /\ \E i \in 1..Len(out) : out[i].Error = "result_sent_in_future"

(* C12. Deferred stop: the step that sets the stop reason all-found is the *)
(* dequeue of a message whose id is indexed and was the only one not yet   *)
(* found. In that same step the message is moved to the hold list, fully   *)
(* classified, its record written and counted, and its samples appended    *)
(* when it is ok, whatever the outcome of the classification. After that   *)
(* step nothing more is dequeued or recorded in the invocation.            *)
C12_DeferredStop ==
    [][run' = run =>
         /\ (stopReason # "all-found" /\ stopReason' = "all-found") =>
               /\ pc = "dequeue" /\ obs # <<>>
               /\ MessageIDOf(Last(obs)) # <<>>
               /\ DOMAIN sourceIndex \ found = {MessageIDOf(Last(obs))[1]}
               /\ found' = DOMAIN sourceIndex
               /\ hold' = <<Last(obs)>> \o hold
               /\ total' = total + 1
               /\ Len(out') = Len(out) + 1
               /\ SubSeq(out', 1, Len(out)) = out
               /\ LET rec == out'[Len(out')]
                  IN /\ rec = Classify(Last(obs), clock, sourceIndex, cfg.T0Unit)
                     /\ rec.MessageID = MessageIDOf(Last(obs))
                     /\ IF rec.OK
                        THEN /\ okCount' = okCount + 1 /\ badCount' = badCount
                             /\ serveTimes' = Append(serveTimes, rec.ServeUs[1])
                             /\ latencies' = Append(latencies, rec.LatencyUs[1])
                        ELSE /\ okCount' = okCount /\ badCount' = badCount + 1
                             /\ rec.Error # ""
                             /\ serveTimes' = serveTimes /\ latencies' = latencies
               /\ pc' = "export"
         /\ stopReason = "all-found" =>
               /\ stopReason' = "all-found"
               /\ pc' \notin {"loop", "dequeue"}
               /\ total' = total /\ out' = out /\ found' = found
               /\ okCount' = okCount /\ badCount' = badCount
               /\ pc' \notin {"verify", "restore", "done", "failed"} => hold' = hold
      ]_vars

C12_Witness ==
    /\ stopReason = "all-found"
    /\ pc = "done"
    /\ Len(out) >= 2
    /\ ~out[Len(out)].OK
    /\ out[Len(out)].Error = "result_sent_in_future"
    /\ okCount >= 1

(* C13. A failure of the dequeue other than redis.Nil aborts the           *)
(* invocation with the brpoplpush error: the step moves no message, the    *)
(* invocation does nothing afterwards (no dequeue, no retry, no export, no *)
(* stats, no restore), and every record written before the failure is in   *)
(* the out file, one per message read.                                     *)
C13_DequeueFailure ==
    [][run' = run =>
         /\ (err # "brpoplpush" /\ err' = "brpoplpush") =>
               /\ pc = "dequeue" /\ pc' = "failed"
               /\ obs' = obs /\ hold' = hold
               /\ total' = total /\ out' = out
               /\ outFile' = out
               /\ Len(outFile') = total
               /\ lostFile' = <<>> /\ statsFile' = <<>> /\ moved' = 0
         /\ err = "brpoplpush" => (pc' = "failed" /\ UNCHANGED vars)
      ]_vars

C13_Witness ==
    /\ err = "brpoplpush"
    /\ pc = "failed"
    /\ Len(outFile) >= 2
    /\ \E i \in 1..Len(outFile) : outFile[i].OK
    /\ \E i \in 1..Len(outFile) : ~outFile[i].OK
    /\ obs # <<>>

(* C14. An empty dequeue (BRPOPLPUSH returns redis.Nil after the wait) is  *)
(* no error: the step goes back to the loop head and leaves total, ok,     *)
(* bad, the found set and its counter, both sample series, the records     *)
(* written, the stop reason, the error and both lists as they were.        *)
C14_EmptyDequeue ==
    [][(pc = "dequeue" /\ obs = <<>> /\ pc' # "dequeue" /\ err' = err) =>
          /\ pc' = "loop"
          /\ err' = ""
          /\ stopReason' = ""
          /\ total' = total /\ okCount' = okCount /\ badCount' = badCount
          /\ found' = found /\ foundCount' = foundCount
          /\ serveTimes' = serveTimes /\ latencies' = latencies
          /\ out' = out
          /\ obs' = obs /\ hold' = hold
      ]_vars

C14_Witness ==
    /\ pc = "loop"
    /\ checkedAt >= 0
    /\ checkedAt < endUs
    /\ clock >= checkedAt + cfg.BlockSec * UsPerSec
    /\ total = 0
    /\ obs = <<>>
    /\ hold = hold0

(* C15. One record per dequeued message: at every loop head, and in every  *)
(* other state of an invocation, the number of records written equals      *)
(* total_read, total_read = ok + bad, the ok records are ok in number, and *)
(* both sample series have length ok.                                      *)
C15_OneRecordPerMessage ==
    /\ Len(out) = total
    /\ total = okCount + badCount
    /\ Cardinality({i \in 1..Len(out) : out[i].OK}) = okCount
    /\ Cardinality({i \in 1..Len(out) : ~out[i].OK /\ out[i].Error # ""}) = badCount
    /\ Len(serveTimes) = okCount
    /\ Len(latencies) = okCount
    /\ pc \in {"loop", "dequeue", "export", "stats"} => Len(hold) = Len(hold0) + total

C15_Witness ==
    /\ pc = "loop"
    /\ okCount >= 1
    /\ badCount >= 2
    /\ Len(out) = 3

(* C16. The record written for a dequeued message has ok = true if and     *)
(* only if the payload decodes as a JSON object, its id is present and     *)
(* extracted, its send time is present, not null and normalizes under the  *)
(* configured unit, the id is a key of the source index, the serve time    *)
(* (result sent minus source sent) is not negative and the latency (read   *)
(* time minus result sent) is not negative. Exactly then the record        *)
(* carries serve_us and latency_us, with these values, and they are        *)
(* appended to the sample series; otherwise it carries neither and the     *)
(* series are left alone.                                                  *)
C16_OkIff ==
    [][(pc = "dequeue" /\ total' = total + 1) =>
          LET raw == Last(obs)
              ts == clock
              rec == out'[Len(out')]
              idOk == raw.json /\ raw.id.k # "absent" /\ extractString(raw.id) # <<>>
              t0Ok == /\ raw.json /\ raw.t0.k \notin {"absent", "null"}
                      /\ parseFieldToEpoch(raw.t0, cfg.T0Unit) # <<>>
              known == idOk /\ extractString(raw.id)[1] \in DOMAIN sourceIndex
              t0 == parseFieldToEpoch(raw.t0, cfg.T0Unit)[1]
              src == sourceIndex[extractString(raw.id)[1]].SentUs
              allOk == idOk /\ t0Ok /\ known /\ t0 - src >= 0 /\ ts - t0 >= 0
          IN /\ rec.OK <=> allOk
             /\ rec.OK <=> rec.Error = ""
             /\ IF allOk
                THEN /\ rec.ServeUs = <<t0 - src>>
                     /\ rec.LatencyUs = <<ts - t0>>
                     /\ serveTimes' = Append(serveTimes, t0 - src)
                     /\ latencies' = Append(latencies, ts - t0)
                ELSE /\ rec.ServeUs = <<>>
                     /\ rec.LatencyUs = <<>>
                     /\ serveTimes' = serveTimes
                     /\ latencies' = latencies
      ]_vars

C16_Witness ==
    /\ Len(out) >= 1
    /\ out[1].OK /\ out[1].ServeUs = <<0>> /\ out[1].LatencyUs = <<0>>
    /\ out[1].MessageID = <<2>>
    /\ cfg.T0Unit = "ms"
    /\ serveTimes = <<0>>

(* C17. First sighting only: within an invocation the found set never      *)
(* loses an id and changes only when a message is dequeued. A message      *)
(* whose id is an index key not yet found adds exactly that id (and one to *)
(* the counter); a message whose id is already found, is not an index key  *)
(* or could not be extracted leaves the set and the counter unchanged.     *)
C17_FirstSighting ==
    [][run' = run =>
         /\ found \subseteq found'
         /\ IF pc = "dequeue" /\ total' = total + 1
            THEN LET id == MessageIDOf(Last(obs))
                 IN IF id # <<>> /\ id[1] \in DOMAIN sourceIndex /\ id[1] \notin found
                    THEN found' = found \cup {id[1]} /\ foundCount' = foundCount + 1
                    ELSE found' = found /\ foundCount' = foundCount
            ELSE found' = found /\ foundCount' = foundCount
      ]_vars

C17_Witness ==
    /\ pc = "loop"
    /\ found = {1}
    /\ Cardinality({i \in 1..Len(out) : out[i].MessageID = <<1>>}) >= 2
    /\ Cardinality(DOMAIN sourceIndex) >= 2

(* C18. Timeout warning: once the loop is over, the warning was emitted    *)
(* exactly when the loop stopped by timeout with fewer found ids than      *)
(* indexed ids, and it reports missing = indexed - found, which is the     *)
(* length of the lost manifest. The warning is no error: the lost export   *)
(* runs in the same invocation, the stats are written and the restore is   *)
(* entered when requested, unless one of these steps fails by itself.      *)
C18_TimeoutWarning ==
    /\ lostRuns = 0 => warned = <<>>
    /\ lostRuns = 1 =>
          /\ warned # <<>> <=> (stopReason = "timeout" /\ Cardinality(found) < Indexed)
          /\ warned # <<>> => warned[1] = Indexed - Cardinality(found)
          /\ (warned # <<>> /\ lostFile # <<>>) => Len(lostFile[1]) = warned[1]
    /\ warned # <<>> =>
          /\ lostRuns = 1
          /\ pc \in {"stats", "verify", "restore", "done", "failed"}
          /\ pc = "failed" =>
                err \in {"write lost json", "write stats json"} \cup RestoreErrors
          /\ pc \in {"stats", "verify", "restore", "done"} => lostFile # <<>>
          /\ pc \in {"verify", "restore", "done"} => statsFile # <<>>
          /\ pc \in {"verify", "restore"} => cfg.Restore
          /\ (pc = "done" /\ cfg.Restore) => (hold = <<>> /\ moved = Len(holdR))

C18_Witness ==
    /\ pc = "done"
    /\ warned = <<1>>
    /\ found # {}
    /\ cfg.Restore
    /\ moved >= 1
    /\ statsFile # <<>>

(* C19. End to end: when the observation list holds exactly one message    *)
(* per indexed id and nothing else, each with a result send time equal to  *)
(* its source send time plus d and not later than its read time, and no    *)
(* other client pushes, then every record written is ok with serve_us = d  *)
(* and nothing is bad; and when the duration was long enough for the loop  *)
(* not to stop by timeout, the loop stopped with all-found, total_read =   *)
(* ok = indexed, bad = 0, the lost manifest is empty and the stats report  *)
(* ok = indexed, bad = 0 and serve p50 = d.                                *)
C19_EndToEnd ==
    LET d == CHOOSE x \in Delays : payloads = EndToEndPayloads(x)
        carried(id) ==
            Cardinality({i \in 1..Len(obs0) : MessageIDOf(obs0[i]) = <<id>>})
        premise ==
            /\ LoopStarted
            /\ Len(obs0) = Indexed
            /\ \A id \in Keys : carried(id) = 1
            /\ ext = <<>>
        loopOver == pc \in {"export", "stats", "verify", "restore", "done"}
                       \/ (pc = "failed" /\ err # "brpoplpush")
    IN premise =>
          /\ badCount = 0
          /\ \A i \in 1..Len(out) : out[i].OK /\ out[i].ServeUs = <<d>>
          /\ (loopOver /\ stopReason # "timeout") =>
                /\ stopReason = "all-found"
                /\ total = Indexed /\ okCount = Indexed
                /\ lostFile # <<>> => lostFile[1] = <<>>
                /\ statsFile # <<>> =>
                      /\ statsFile[1].OK = Indexed
                      /\ statsFile[1].Bad = 0
                      /\ statsFile[1].ServeUs # <<>>
                      /\ statsFile[1].ServeUs[1].P50 = d

C19_Witness ==
    /\ pc = "done"
    /\ stopReason = "all-found"
    /\ ext = <<>>
    /\ Indexed = MaxId
    /\ okCount = MaxId /\ badCount = 0
    /\ lostFile = <<(<<>>)>>
    /\ statsFile[1].ServeUs[1].P50 = 5000
    /\ obs0[1].id.v = 1

(* C20. Dedup at index time. A line is valid when it decodes, its id is    *)
(* extracted and its send time normalizes. For every dump the index keys   *)
(* are the ids of the valid lines, and the entry of an id holds the send   *)
(* time and the raw bytes of the first valid line with that id; every      *)
(* later valid line with that id is counted as a duplicate, every line     *)
(* that is not valid as bad, and lines = indexed + bad + duplicates. Two   *)
(* valid lines with the same id give indexed = 1 and duplicates = 1.       *)
C20_IndexDedup ==
    LET unit == cfg.SourceSentUnit
        valid(i) ==
            /\ dump[i].json
            /\ dump[i].id.k # "absent" /\ extractString(dump[i].id) # <<>>
            /\ dump[i].sent.k # "absent"
            /\ parseFieldToEpoch(dump[i].sent, unit) # <<>>
        Valid == {i \in 1..Len(dump) : valid(i)}
        idOf(i) == extractString(dump[i].id)[1]
        first(id) == SetMin({i \in Valid : idOf(i) = id})
        Repeats == {i \in Valid : \E j \in Valid : j < i /\ idOf(j) = idOf(i)}
    IN (pc # "start" /\ err # "open source dump") =>
          /\ DOMAIN sourceIndex = {idOf(i) : i \in Valid}
          /\ \A id \in DOMAIN sourceIndex :
                /\ sourceIndex[id].Raw = dump[first(id)]
                /\ sourceIndex[id].SentUs
                      = parseFieldToEpoch(dump[first(id)].sent, unit)[1]
          /\ sourceStats.Total = Len(dump)
          /\ sourceStats.Indexed = Cardinality(DOMAIN sourceIndex)
          /\ sourceStats.Duplicates = Cardinality(Repeats)
          /\ sourceStats.Bad = Len(dump) - Cardinality(Valid)
          /\ (Len(dump) = 2 /\ Valid = {1, 2} /\ idOf(1) = idOf(2)) =>
                (sourceStats.Indexed = 1 /\ sourceStats.Duplicates = 1)

C20_Witness ==
    /\ pc = "done"
    /\ Len(dump) = 2
    /\ sourceStats.Indexed = 1
    /\ sourceStats.Duplicates = 1
    /\ dump[1] # dump[2]
    /\ dump[2].id = Num(1)
    /\ sourceIndex[1].Raw = dump[1]
    /\ sourceIndex[1].SentUs = UsPerSec
    /\ okCount = 1

----------------------------------------------------------------------------
(* C22: for an integer JSON number whose product stays in int64, the unit  *)
(* s gives the number times 1,000,000, ms times 1,000 and us the number    *)
(* itself; the unit auto gives the number itself from 10^15 on, times      *)
(* 1,000 in [10^12, 10^15), times 1,000,000 in [10^9, 10^12), and fails    *)
(* below 10^9, zero and the negative numbers included.                     *)
NumericCall == arg.fn = "parseFieldToEpoch" /\ arg.v.k = "num" /\ res.done

(* The number of decimal digits of the argument, 0 when it is not positive *)
ArgDigits == IF arg.v.v <= 0 THEN 0 ELSE Digits(arg.v.v) + arg.v.e

C22_WitnessBelow ==
    /\ NumericCall
    /\ arg.unit = "auto"
    /\ arg.v = NumE(999999999, 3)
    /\ res.val = <<Sci(999999999, 9)>>

----------------------------------------------------------------------------
(* C23: for a string that parses as a timestamp, the result is the         *)
(* UnixMicro of the instant, the same under the units s, ms, us and auto.  *)
(* The code does not return after the parse (the return of lines 140 and   *)
(* 147 is commented out): the UnixMicro goes through the unit switch like  *)
(* a number, so the statement is violated.                                 *)
TimestampCall ==
    /\ arg.fn = "parseFieldToEpoch"
    /\ arg.v.k = "iso"
    /\ normalizeUnit(arg.unit) \in UnitTokens
    /\ res.done

C23_TimestampIgnoresUnit ==
    TimestampCall => res.val = <<Sci(arg.v.v, arg.v.e)>>

(* "1970-01-20T16:13:20Z" under the unit ms comes back a thousand times    *)
(* the instant                                                             *)
C23_Scaled ==
    /\ TimestampCall
    /\ arg.v = IsoE(1700000000, 3)
    /\ arg.unit = "ms"
    /\ res.val = <<Sci(1700000000, 6)>>

(* the same string under the unit auto *)
C23_ScaledAuto ==
    /\ TimestampCall
    /\ arg.v = IsoE(1700000000, 3)
    /\ arg.unit = "auto"
    /\ res.val = <<Sci(1700000000, 6)>>

(* "1970-01-01T00:16:39.999999Z" is refused under the unit auto *)
C23_Refused ==
    /\ TimestampCall
    /\ arg.v = IsoE(999999999, 0)
    /\ arg.unit = "auto"
    /\ res.val = <<>>

----------------------------------------------------------------------------
(* C24: a string of decimal digits is accepted and gives the microsecond   *)
(* epoch that the equal number gives under the same unit, and a string     *)
(* that is neither a timestamp nor numeric fails. In the code a string     *)
(* never reaches parseInt: without one of "T:-" it is not parsed at all    *)
(* and the switch runs on num = 0, so the statement is violated.           *)
StringCall(kinds) ==
    /\ arg.fn = "parseFieldToEpoch"
    /\ arg.v.k \in kinds
    /\ res.done

C24_NumericString ==
    /\ StringCall({"numstr"}) =>
         res.val = scaleEpoch(Sci(arg.v.v, arg.v.e), normalizeUnit(arg.unit))
    /\ StringCall({"text", "isobad"}) => res.val = <<>>

(* "1700000000" under the unit s gives 0 *)
C24_Zero ==
    /\ StringCall({"numstr"})
    /\ arg.v = NumStr(1700000000, 0)
    /\ arg.unit = "s"
    /\ res.val = <<Sci(0, 6)>>

(* "1700000000" under the unit auto is refused, the number is not *)
C24_Refused ==
    /\ StringCall({"numstr"})
    /\ arg.v = NumStr(1700000000, 0)
    /\ arg.unit = "auto"
    /\ res.val = <<>>
    /\ normalizeEpoch(NumE(1700000000, 0), "auto") = <<Sci(1700000000, 6)>>

(* a string such as "abc" under the unit us gives 0 *)
C24_TextAccepted ==
    /\ StringCall({"text"})
    /\ arg.unit = "us"
    /\ res.val = <<Sci(0, 0)>>

----------------------------------------------------------------------------
(* C25: for a non-empty ascending sequence of n values and q one of 0.50,  *)
(* 0.90, 0.95 and 0.99, percentile returns the element at the index        *)
(* ceil(q*n) - 1 clamped to [0, n-1].                                      *)
PercentileCall == arg.fn = "percentile" /\ arg.sortedVals # <<>> /\ res.done

(* ceil(q*n) for q in percent: the least c with c >= q*n/100 *)
CeilRank(n, q) == CHOOSE c \in 0..n : 100 * c >= q * n /\ 100 * (c - 1) < q * n

Clamp(i, lo, hi) == IF i < lo THEN lo ELSE IF i > hi THEN hi ELSE i

C25_NearestRank ==
    PercentileCall =>
        LET n == Len(arg.sortedVals)
        IN res.val = arg.sortedVals[Clamp(CeilRank(n, arg.q) - 1, 0, n - 1) + 1]

(* of 21 values 0, 3, .. 60 the p95 is the 20th and not the last one *)
C25_Witness ==
    /\ PercentileCall
    /\ Len(arg.sortedVals) = MaxSamples
    /\ arg.sortedVals[1] < arg.sortedVals[2]
    /\ arg.q = 95
    /\ res.val = arg.sortedVals[MaxSamples - 1]

----------------------------------------------------------------------------
(* C26: when the series are not empty, after the sort at the end of the    *)
(* loop p50 <= p90 <= p95 <= p99 <= max holds for the serve series and for *)
(* the latency series, max being the last element of the sorted series.    *)
StatsWithSamples == statsFile # <<>> /\ serveTimes # <<>> /\ latencies # <<>>

Monotone(p, max) == p.P50 <= p.P90 /\ p.P90 <= p.P95 /\ p.P95 <= p.P99 /\ p.P99 <= max

C26_PercentilesMonotone ==
    StatsWithSamples =>
        /\ statsFile[1].ServeUs # <<>>
        /\ statsFile[1].LatencyUs # <<>>
        /\ Monotone(statsFile[1].ServeUs[1], Last(serveTimes))
        /\ Monotone(statsFile[1].LatencyUs[1], Last(latencies))

(* two samples that arrived with the larger serve time first *)
C26_Witness ==
    /\ StatsWithSamples
    /\ Len(out) = 2
    /\ out[1].OK /\ out[2].OK
    /\ out[1].ServeUs[1] > out[2].ServeUs[1]
    /\ statsFile[1].ServeUs[1].P50 < statsFile[1].ServeUs[1].P99

----------------------------------------------------------------------------
(* C27: the stats hold the serve block and the latency block when ok > 0   *)
(* and neither of them when ok = 0; one is never there without the other.  *)
C27_BlocksTogether ==
    statsFile # <<>> =>
        LET s == statsFile[1]
        IN /\ s.OK = okCount
           /\ s.OK > 0 => (s.ServeUs # <<>> /\ s.LatencyUs # <<>>)
           /\ s.OK = 0 => (s.ServeUs = <<>> /\ s.LatencyUs = <<>>)
           /\ (s.ServeUs = <<>>) <=> (s.LatencyUs = <<>>)

(* a run that read a message and has no ok record: both blocks omitted *)
C27_Witness ==
    /\ statsFile # <<>>
    /\ total > 0
    /\ statsFile[1].OK = 0
    /\ statsFile[1].ServeUs = <<>>
    /\ statsFile[1].LatencyUs = <<>>

(* a run with an ok record: both blocks present *)
C27_WitnessPresent ==
    /\ statsFile # <<>>
    /\ statsFile[1].OK > 0
    /\ statsFile[1].ServeUs # <<>>
    /\ statsFile[1].LatencyUs # <<>>

----------------------------------------------------------------------------
(* C28: the argument list "load-dump-and-rewrite -mode same", and likewise *)
(* with increment, parses without error, with the run mode                 *)
(* load-dump-and-rewrite and the rewrite mode the value given. extractMode *)
(* takes every -mode as the run mode before the flags are parsed, so the   *)
(* statement is violated.                                                  *)
RewriteModeCall ==
    /\ arg.fn = "parseConfig"
    /\ Len(arg.args) = 3
    /\ arg.args[1] = modeLoadDumpAndRewrite
    /\ arg.args[2] = "-mode"
    /\ arg.args[3] \in {"same", "increment"}
    /\ res.done

C28_RewriteModeFlag ==
    RewriteModeCall =>
        /\ res.val.err = ""
        /\ res.val.mode = modeLoadDumpAndRewrite
        /\ res.val.rewrite = arg.args[3]

(* "load-dump-and-rewrite -mode same" is refused *)
C28_Conflict ==
    /\ RewriteModeCall
    /\ arg.args[3] = "same"
    /\ res.val = ParseFailed("mode conflict")

(* "-mode same" alone is accepted with the run mode "same" *)
C28_RunModeSame ==
    /\ arg.fn = "parseConfig"
    /\ arg.args = <<"-mode", "same">>
    /\ res.done
    /\ res.val = [err |-> "", mode |-> "same", rewrite |-> DefaultRewriteMode]

(* no argument list of the model sets the rewrite mode *)
C28_RewriteModeNeverSet ==
    (arg.fn = "parseConfig" /\ res.done /\ res.val.err = "") =>
        res.val.rewrite = DefaultRewriteMode

----------------------------------------------------------------------------
(* C29: an id of the index is in the lost manifest exactly when no message *)
(* read with a decodable payload carried it. A message with an indexed id  *)
(* marks the id found whatever its own outcome is (no send time, sent      *)
(* before the source, sent in the future), so the loop can stop with       *)
(* all-found while ok is below the number of indexed ids.                  *)
Carried(id) == \E i \in 1..Len(out) : out[i].MessageID = <<id>>

InManifest(id) == \E j \in 1..Len(lostFile[1]) : lostFile[1][j] = sourceIndex[id].Raw

C29_LostIffNeverCarried ==
    /\ \A id \in Keys : Carried(id) <=> id \in found
    /\ lostFile # <<>> => \A id \in Keys : InManifest(id) <=> ~Carried(id)

(* every id was carried, none by an ok message alone: the loop stopped     *)
(* with all-found, the manifest is empty and ok is below indexed           *)
C29_Witness ==
    /\ stopReason = "all-found"
    /\ lostFile = << <<>> >>
    /\ Indexed = MaxId
    /\ okCount < Indexed
    /\ \E i \in 1..Len(out) :
          /\ out[i].Error = "missing_or_bad_t0"
          /\ out[i].MessageID = <<1>>
          /\ ~\E j \in 1..Len(out) : out[j].OK /\ out[j].MessageID = <<1>>

----------------------------------------------------------------------------
(* C30: the error of a record that is not ok is that of the first check    *)
(* that fails, in the order: JSON decode, id missing, id bad, result send  *)
(* time missing or not normalizable, id not in the index, negative serve   *)
(* time, negative latency. A message with an unknown id and a bad send     *)
(* time gets the send-time error, and a negative serve time is recorded    *)
(* without a latency, whether or not the latency would be negative too.    *)
CheckOrder ==
    <<"json_parse_error", "missing_id", "bad_id", "missing_or_bad_t0",
      "source_not_found", "result_sent_before_source", "result_sent_in_future">>

(* The checks that the payload raw read at ts fails, as positions of       *)
(* CheckOrder, each looked at on its own                                   *)
FailedChecks(raw, ts) ==
    LET idOk == raw.json /\ raw.id.k # "absent" /\ extractString(raw.id) # <<>>
        t0Ok == /\ raw.json /\ raw.t0.k \notin {"absent", "null"}
                /\ parseFieldToEpoch(raw.t0, cfg.T0Unit) # <<>>
        known == idOk /\ extractString(raw.id)[1] \in DOMAIN sourceIndex
        t0 == parseFieldToEpoch(raw.t0, cfg.T0Unit)[1]
        src == sourceIndex[extractString(raw.id)[1]].SentUs
    IN {n \in 1..Len(CheckOrder) :
          CASE n = 1 -> ~raw.json
            [] n = 2 -> raw.json /\ raw.id.k = "absent"
            [] n = 3 -> raw.json /\ raw.id.k # "absent" /\ ~idOk
            [] n = 4 -> raw.json /\ ~t0Ok
            [] n = 5 -> idOk /\ ~known
            [] n = 6 -> known /\ t0Ok /\ t0 - src < 0
            [] n = 7 -> t0Ok /\ ts - t0 < 0}

C30_FirstFailingCheck ==
    [][(pc = "dequeue" /\ total' = total + 1) =>
          LET rec == out'[Len(out')]
              failed == FailedChecks(Last(obs), clock)
          IN /\ failed = {} <=> rec.OK
             /\ failed # {} => rec.Error = CheckOrder[SetMin(failed)]
             /\ rec.Error = "result_sent_before_source" =>
                    rec.ServeUs = <<>> /\ rec.LatencyUs = <<>>
      ]_vars

(* an unknown id with a blank send time: the send-time error *)
C30_Witness ==
    /\ Len(out) = 1
    /\ out[1].MessageID = <<MaxId + 1>>
    /\ out[1].ResultSentUs = <<>>
    /\ out[1].Error = "missing_or_bad_t0"
    /\ hold = <<Obj(Str(MaxId + 1), Blank)>>

(* sent before the source and after the read: the serve-time error *)
C30_WitnessBoth ==
    /\ Len(out) = 1
    /\ hold = <<Obj(Str(2), Num(1000))>>
    /\ cfg.T0Unit = "us"
    /\ out[1].Error = "result_sent_before_source"
    /\ out[1].LatencyUs = <<>>

----------------------------------------------------------------------------
(* C31: when the clock keeps advancing and every BRPOPLPUSH returns, with  *)
(* a payload, empty after BlockSec, or with an error, the loop eventually  *)
(* leaves its running state, whatever payloads arrive on the observation   *)
(* list meanwhile.                                                         *)
Running == pc \in {"loop", "dequeue"}

C31_LoopTerminates == Running ~> ~Running

(* the loop ended by the deadline after a payload of the other client was  *)
(* read                                                                    *)
C31_Witness ==
    /\ ~Running
    /\ LoopStarted
    /\ stopReason = "timeout"
    /\ Len(ext) >= 1
    /\ total > Len(obs0)

----------------------------------------------------------------------------
(* C32: at the top of every iteration of the loop the found set is a       *)
(* proper subset of the keys of the source index; hence a stop by timeout  *)
(* leaves at least one id in the lost manifest and a stop by all-found     *)
(* gives an empty lost manifest.                                           *)
C32_FoundBelowIndex ==
    /\ Running =>
         /\ found \subseteq Keys
         /\ Cardinality(found) < Indexed
         /\ foundCount = Cardinality(found)
    /\ (lostFile # <<>> /\ stopReason = "timeout") => Len(lostFile[1]) >= 1
    /\ (lostFile # <<>> /\ stopReason = "all-found") => lostFile[1] = <<>>

(* a timeout after one of two ids was found: the other is in the manifest *)
C32_Witness ==
    /\ stopReason = "timeout"
    /\ lostFile # <<>>
    /\ Len(lostFile[1]) = 1
    /\ Cardinality(found) = 1
    /\ Indexed = 2

----------------------------------------------------------------------------
(* C33: every move is one atomic pop and push, so at every moment each     *)
(* payload is in exactly one of the two lists: the lists together hold     *)
(* what they held when the run started and what the other client pushed    *)
(* since, nothing lost and nothing twice, in the measure loop and in the   *)
(* restore loop. total_read is the number of payloads this run moved onto  *)
(* the hold list.                                                          *)
MovedToHold == IF RestoreStarted THEN Len(holdR) - Len(hold0) ELSE Len(hold) - Len(hold0)

C33_Conservation ==
    /\ \A m \in AllPayloads :
          Count(obs, m) + Count(hold, m)
            = Count(obs0, m) + Count(hold0, m) + Count(ExtSince(ext0), m)
    /\ Len(obs) + Len(hold) = Len(obs0) + Len(hold0) + Len(ext) - ext0
    /\ total = MovedToHold
    /\ ~RestoreStarted => SubSeq(hold, total + 1, Len(hold)) = hold0

(* the other client pushed while payloads were in quarantine, and the      *)
(* restore loop has moved one of them back                                 *)
C33_Witness ==
    /\ pc = "restore"
    /\ moved >= 1
    /\ hold # <<>>
    /\ total >= 1
    /\ Len(ext) >= 1

----------------------------------------------------------------------------
(* C34: with RestoreVerify, if the restore moves anything, then at every   *)
(* move the observation list holds only the payloads this restore put      *)
(* there, also while another client pushes onto the list during the        *)
(* restore phase. The list is looked at once, by the LLEN before the first *)
(* move; a push that falls after it is not seen, so the statement is       *)
(* violated.                                                               *)
RestoredSoFar == SubSeq(holdR, Len(holdR) - moved + 1, Len(holdR))

C34_NeverMixed ==
    [][(pc = "restore" /\ cfg.RestoreVerify /\ moved' = moved + 1) =>
          obs = RestoredSoFar
      ]_vars

(* the list was empty at the LLEN, the other client pushed after it, and   *)
(* the restore went on moving payloads onto the list                       *)
C34_Mixed ==
    /\ pc = "restore"
    /\ cfg.RestoreVerify
    /\ obsR = <<>>
    /\ moved >= 1
    /\ Len(ext) > extR
    /\ Len(obs) > moved

(* without a push after the LLEN the list holds the restored payloads only *)
C34_AloneUnmixed ==
    (pc = "restore" /\ cfg.RestoreVerify /\ Len(ext) = extR) => obs = RestoredSoFar

----------------------------------------------------------------------------
(* C35: the payloads drained by the loop (popped from the tail of the      *)
(* observation list, pushed onto the head of the hold list) and restored   *)
(* (popped from the tail of the hold list, pushed onto the head of the     *)
(* observation list) keep the order they had: with no other client, the    *)
(* hold list is the drained end of the original list in its order, and     *)
(* when the list was drained to the end the restore leaves it equal to the *)
(* original list as a sequence.                                            *)
Drained == SubSeq(obs0, Len(obs0) - total + 1, Len(obs0))

Undrained == SubSeq(obs0, 1, Len(obs0) - total)

C35_OrderKept ==
    ExtSince(ext0) = <<>> =>
        /\ ~RestoreStarted => (hold = Drained \o hold0 /\ obs = Undrained)
        /\ RestoreStarted => (holdR = Drained \o hold0 /\ obsR = Undrained)
        /\ (pc = "done" /\ cfg.Restore) => obs = Drained \o hold0 \o Undrained
        /\ (pc = "done" /\ cfg.Restore /\ hold0 = <<>> /\ total = Len(obs0)) => obs = obs0

(* two different payloads were drained and restored in their order *)
C35_Witness ==
    /\ pc = "done"
    /\ cfg.Restore
    /\ ext = <<>>
    /\ hold0 = <<>>
    /\ total = 2
    /\ Len(obs0) = 2
    /\ obs0[1] # obs0[2]
    /\ obs = obs0

----------------------------------------------------------------------------
(* C36: when the dequeue fails with a transport error the run ends there,  *)
(* also when a restore was requested: the restore phase is not entered,    *)
(* nothing is moved back, every payload quarantined before the failure is  *)
(* still in the hold list and the observation list is not refilled.        *)
C36_NoRestoreAfterFailure ==
    (err = "brpoplpush" /\ cfg.Restore) =>
        /\ pc = "failed"
        /\ ~RestoreStarted
        /\ moved = 0
        /\ holdR = <<>> /\ obsR = <<>>
        /\ Len(hold) = Len(hold0) + total
        /\ SubSeq(hold, total + 1, Len(hold)) = hold0
        /\ Len(obs) = Len(obs0) + (Len(ext) - ext0) - total

(* the failure came after a payload was quarantined, with restore on *)
C36_Witness ==
    /\ err = "brpoplpush"
    /\ cfg.Restore
    /\ total >= 1
    /\ Len(hold) = Len(hold0) + total
    /\ hold0 # <<>>

----------------------------------------------------------------------------
(* C37: the samples are taken per message and not per id. A message whose  *)
(* id was found before is classified and recorded like any other: when it  *)
(* is ok it is counted in ok and appended to both sample series, and the   *)
(* found set and its counter stay as they are. So ok can exceed the number *)
(* of indexed ids, while the found set never does.                         *)
C37_SamplesPerMessage ==
    /\ [](Cardinality(found) <= Indexed)
    /\ [][(pc = "dequeue" /\ total' = total + 1) =>
            LET id == MessageIDOf(Last(obs))
                rec == out'[Len(out')]
            IN (id # <<>> /\ id[1] \in found) =>
                  /\ Len(out') = Len(out) + 1
                  /\ rec.MessageID = id
                  /\ rec = Classify(Last(obs), clock, sourceIndex, cfg.T0Unit)
                  /\ found' = found /\ foundCount' = foundCount
                  /\ rec.OK => /\ okCount' = okCount + 1
                               /\ badCount' = badCount
                               /\ serveTimes' = Append(serveTimes, rec.ServeUs[1])
                               /\ latencies' = Append(latencies, rec.LatencyUs[1])
                  /\ ~rec.OK => /\ okCount' = okCount
                                /\ badCount' = badCount + 1
                                /\ serveTimes' = serveTimes
                                /\ latencies' = latencies
       ]_vars

(* three ok messages of one id against an index of two ids *)
C37_Witness ==
    /\ okCount > Indexed
    /\ Indexed >= 2
    /\ Cardinality(found) = 1
    /\ Len(serveTimes) = okCount
    /\ Len(latencies) = okCount

----------------------------------------------------------------------------
(* C38: for a dump read to its end the counters partition the lines:       *)
(* total_lines = indexed + bad + duplicates, and indexed is the number of  *)
(* keys of the index. A line whose id is indexed already and whose send    *)
(* time is missing or invalid counts as bad and not as a duplicate, and a  *)
(* bad line does not end the build: the valid lines after it are indexed.  *)
DumpRead == pc # "start" /\ err \notin {"open source dump"} /\ configError(cfg) = ""

IdOfLine(i) == IF dump[i].json THEN extractString(dump[i].id) ELSE <<>>

SentOfLine(i) ==
    IF dump[i].json /\ dump[i].sent.k # "absent"
    THEN parseFieldToEpoch(dump[i].sent, cfg.SourceSentUnit) ELSE <<>>

(* lines with an id seen on an earlier complete line, split by send time *)
RepeatedId(i) ==
    /\ IdOfLine(i) # <<>>
    /\ \E j \in 1..(i - 1) : IdOfLine(j) = IdOfLine(i) /\ SentOfLine(j) # <<>>

C38_CountersPartition ==
    DumpRead =>
        /\ sourceStats.Total = Len(dump)
        /\ sourceStats.Total
             = sourceStats.Indexed + sourceStats.Bad + sourceStats.Duplicates
        /\ sourceStats.Indexed = Cardinality(DOMAIN sourceIndex)
        /\ sourceStats.Duplicates
             = Cardinality({i \in 1..Len(dump) : RepeatedId(i) /\ SentOfLine(i) # <<>>})
        /\ sourceStats.Bad
             >= Cardinality({i \in 1..Len(dump) : RepeatedId(i) /\ SentOfLine(i) = <<>>})
        /\ \A i \in 1..Len(dump) :
              (IdOfLine(i) # <<>> /\ SentOfLine(i) # <<>>) =>
                  IdOfLine(i)[1] \in DOMAIN sourceIndex

(* the second line repeats the id of the first with a blank send time *)
C38_Witness ==
    /\ DumpRead
    /\ dump = <<SrcLine(Str(1), Num(0)), SrcLine(Str(1), Blank)>>
    /\ sourceStats = [Total |-> 2, Indexed |-> 1, Bad |-> 1, Duplicates |-> 0]

(* a bad line first, a valid line after it *)
C38_WitnessAfterBad ==
    /\ DumpRead
    /\ dump = <<BadLine, SrcLine(Str(2), Num(UsPerSec))>>
    /\ sourceStats = [Total |-> 2, Indexed |-> 1, Bad |-> 1, Duplicates |-> 0]
    /\ DOMAIN sourceIndex = {2}

----------------------------------------------------------------------------
(* load-dump-and-rewrite: src/propher/load_dump_and_rewrite.go             *)
(*                                                                         *)
(* The call is kept in arg (the configuration, the lines of the in dump)   *)
(* and the locals of runLoadDumpAndRewrite in res.val; res.done is set     *)
(* when the function has returned or panicked.                             *)

(* lines of the in dump *)
MaxLines == 3

(* line 113 *)
DefaultBatch == 1000

(* lines 69 and 71: the wall clock when the base is resolved *)
NowSec == 1700

(* A line of the in dump.  blank: nothing is left by bytesTrimSpace.       *)
(* invalid: json.Unmarshal into a map returns an error (no JSON, or a JSON *)
(* value that is not an object).  null: the JSON literal null.  object: a  *)
(* JSON object, sent = <<>> when it has no sent field yet.                 *)
DumpLine(kind, i, s) == [k |-> kind, id |-> i, sent |-> s]

DumpLines ==
    {DumpLine("blank", 0, <<>>), DumpLine("invalid", 0, <<>>), DumpLine("null", 0, <<>>),
     DumpLine("object", 1, <<>>), DumpLine("object", 2, <<7>>)}

(* lines 375-397 followed by line 122: is the trimmed line empty *)
bytesTrimSpace(line) == IF line.k = "blank" THEN <<>> ELSE <<line>>

(* line 128, json.Unmarshal(trimmed, &obj) with obj a map: an error for    *)
(* what is not an object; null is accepted and leaves obj the nil map      *)
Unmarshal(line) ==
    CASE line.k = "object" -> [err |-> FALSE, nil |-> FALSE, id |-> line.id, sent |-> line.sent]
      [] line.k = "null"   -> [err |-> FALSE, nil |-> TRUE, id |-> 0, sent |-> <<>>]
      [] OTHER             -> [err |-> TRUE, nil |-> TRUE, id |-> 0, sent |-> <<>>]

(* lines 140-142: the sent field is set and the object encoded again *)
Marshal(obj, v) == [id |-> obj.id, sent |-> <<v>>]

(* lines 47-64, the checks that depend on the modelled fields *)
loadConfigError(c) ==
    IF c.EpochUnit # "ms" /\ c.EpochUnit # "s" THEN "epoch-unit must be ms or s"
    ELSE IF c.Mode # "same" /\ c.Mode # "increment" THEN "mode must be same or increment"
    ELSE ""

(* lines 66-73 *)
resolveBase(c) ==
    IF c.BaseEpoch # 0 THEN c.BaseEpoch
    ELSE IF c.EpochUnit = "ms" THEN NowSec * 1000 ELSE NowSec

(* Mutant: a batch size of zero or less flushes every message *)
resolveBatch_One(b) == IF b <= 0 THEN 1 ELSE b

(* lines 111-114 *)
resolveBatch(b) == IF b <= 0 THEN DefaultBatch ELSE b

(* lines 133-139: the value written into the sent field *)
sentValue(c, s) == IF c.Mode = "same" THEN s.base ELSE s.cur

(* Mutant: the counter never advances *)
nextCur_Keeps(c, s) == s.cur

(* line 138 *)
nextCur(c, s) == IF c.Mode = "same" THEN s.cur ELSE s.cur + c.Step

(* Mutant: the flush waits for one message more than the batch *)
ShouldFlush_Over(pending, batch) == pending > batch

(* line 162 *)
ShouldFlush(pending, batch) == pending >= batch

(* lines 228-236 and 310-321: Redis queues the command in the pipeline,    *)
(* MQTT publishes at once                                                  *)
Enqueue(w, s, payload) ==
    IF w = "redis" THEN [s EXCEPT !.pipe = Append(@, payload)]
    ELSE [s EXCEPT !.pushed = Append(@, payload)]

(* Mutant: the pipeline is executed but what follows its first command is lost *)
QueueFlush_First(w, s) ==
    [s EXCEPT !.pushed = IF s.pipe = <<>> THEN @ ELSE Append(@, Head(s.pipe)),
              !.pipe = <<>>, !.flushes = @ + 1]

(* lines 239-245 and 324-328: Exec sends the pipeline in order; a no-op for MQTT *)
QueueFlush(w, s) ==
    [s EXCEPT !.pushed = @ \o s.pipe, !.pipe = <<>>, !.flushes = @ + 1]

(* lines 119-169: one iteration without an error of the file or the queue *)
scanOne(c, s, line) ==
    LET read == [s EXCEPT !.nIn = @ + 1]
        obj == Unmarshal(line)
    IN  IF bytesTrimSpace(line) = <<>> THEN [read EXCEPT !.nBad = @ + 1]
        ELSE IF obj.err THEN [read EXCEPT !.nBad = @ + 1]
        ELSE IF obj.nil THEN [read EXCEPT !.pc = "panic"]
        ELSE
          LET outBytes == Marshal(obj, sentValue(c, read))
              written == [read EXCEPT !.cur = nextCur(c, read),
                                      !.outW = Append(@, outBytes),
                                      !.nOut = @ + 1]
              queued == [Enqueue(c.writer, written, outBytes) EXCEPT !.pending = @ + 1]
          IN  IF c.writer = "none" THEN written
              ELSE IF ShouldFlush(queued.pending, queued.batch)
                   THEN [QueueFlush(c.writer, queued) EXCEPT !.pending = 0]
                   ELSE queued

(* The calls: the configuration (writer is what the factory of line 103   *)
(* returns: nil, the Redis or the MQTT writer) and the lines of the dump   *)
RewriteArgs ==
    {[fn |-> "runLoadDumpAndRewrite", cfg |-> c, lines |-> l] :
        c \in {x \in [Mode : {"same", "increment", "run"}, Step : {1, 5},
                       BatchSize : {0, 1, 2}, BaseEpoch : {0, 1000},
                       EpochUnit : {"ms", "s"}, writer : {"none", "redis", "mqtt"}] :
                  /\ x.BaseEpoch # 0 => x.EpochUnit = "ms"
                  /\ x.Mode = "run" => x.BatchSize = 0 /\ x.Step = 1},
        l \in SeqsUpTo(DumpLines, MaxLines)}

Rewriting == arg.fn = "runLoadDumpAndRewrite" /\ ~res.done
Locals == res.val
NextLine == arg.lines[Locals.nIn + 1]
MoreLines == Locals.nIn < Len(arg.lines)
(* the next line passes lines 122 and 128 and is not null: it is emitted *)
NextEmitted == MoreLines /\ NextLine.k = "object"

RewriteReturn(s, e) == res' = Returned([s EXCEPT !.pc = "failed", !.err = e])

(* lines 44-115: the configuration is checked, the base and the batch size *)
(* are resolved, the files opened and the queue writer made                *)
RewriteOpen ==
    /\ Rewriting /\ Locals.pc = "open"
    /\ IF loadConfigError(arg.cfg) # ""
       THEN RewriteReturn(Locals, loadConfigError(arg.cfg))
       ELSE res' = [res EXCEPT !.val = [Locals EXCEPT !.pc = "loop",
                                           !.base = resolveBase(arg.cfg),
                                           !.cur = resolveBase(arg.cfg),
                                           !.batch = resolveBatch(arg.cfg.BatchSize)]]
    /\ UNCHANGED <<arg, runVars>>

(* lines 75-78, 81-84, 103-106: a file is not opened or the writer not made *)
RewriteOpenFails ==
    /\ Rewriting /\ Locals.pc = "open"
    /\ loadConfigError(arg.cfg) = ""
    /\ \E e \in {"open in dump", "create out dump"}
               \cup (IF arg.cfg.writer = "none" THEN {} ELSE {"queue writer"}) :
          RewriteReturn(Locals, e)
    /\ UNCHANGED <<arg, runVars>>

(* lines 118-170: one line is scanned; a null line panics at line 140 *)
RewriteLine ==
    /\ Rewriting /\ Locals.pc = "loop" /\ MoreLines
    /\ LET s == scanOne(arg.cfg, Locals, NextLine)
       IN  res' = [done |-> s.pc = "panic", val |-> s]
    /\ UNCHANGED <<arg, runVars>>

(* lines 148-153: the line is not written *)
RewriteWriteFails ==
    /\ Rewriting /\ Locals.pc = "loop" /\ NextEmitted
    /\ RewriteReturn([Locals EXCEPT !.nIn = @ + 1,
                                    !.cur = nextCur(arg.cfg, Locals)],
                     "write out dump")
    /\ UNCHANGED <<arg, runVars>>

(* lines 158-160 with 313-319: the line is written, the publish fails.     *)
(* Enqueue of the Redis writer always returns nil (line 235).              *)
RewriteEnqueueFails ==
    /\ Rewriting /\ Locals.pc = "loop" /\ NextEmitted
    /\ arg.cfg.writer = "mqtt"
    /\ LET read == [Locals EXCEPT !.nIn = @ + 1]
           outBytes == Marshal(Unmarshal(NextLine), sentValue(arg.cfg, read))
       IN  RewriteReturn([read EXCEPT !.cur = nextCur(arg.cfg, read),
                                      !.outW = Append(@, outBytes),
                                      !.nOut = @ + 1],
                         "enqueue")
    /\ UNCHANGED <<arg, runVars>>

(* lines 162-165 with 241-243: the batch is full and Exec fails; the       *)
(* commands stay in the pipeline, which Close drops.  Flush of the MQTT    *)
(* writer always returns nil (line 327).                                   *)
RewriteFlushFails ==
    /\ Rewriting /\ Locals.pc = "loop" /\ NextEmitted
    /\ arg.cfg.writer = "redis"
    /\ LET read == [Locals EXCEPT !.nIn = @ + 1]
           outBytes == Marshal(Unmarshal(NextLine), sentValue(arg.cfg, read))
           written == [read EXCEPT !.cur = nextCur(arg.cfg, read),
                                   !.outW = Append(@, outBytes),
                                   !.nOut = @ + 1]
           queued == [Enqueue("redis", written, outBytes) EXCEPT !.pending = @ + 1]
       IN  /\ ShouldFlush(queued.pending, queued.batch)
           /\ RewriteReturn([queued EXCEPT !.flushes = @ + 1], "redis pipeline exec")
    /\ UNCHANGED <<arg, runVars>>

(* lines 118 and 171-173: the scanner stops with an error *)
RewriteScanFails ==
    /\ Rewriting /\ Locals.pc = "loop" /\ MoreLines
    /\ RewriteReturn(Locals, "scan input")
    /\ UNCHANGED <<arg, runVars>>

(* lines 171-196: the end of the dump; what is pending is flushed *)
RewriteFinish ==
    /\ Rewriting /\ Locals.pc = "loop" /\ ~MoreLines
    /\ LET s == IF arg.cfg.writer # "none" /\ Locals.pending > 0
                THEN QueueFlush(arg.cfg.writer, Locals)
                ELSE Locals
       IN  res' = Returned([s EXCEPT !.pc = "done"])
    /\ UNCHANGED <<arg, runVars>>

(* lines 176-179: the last Exec fails; lines 186-190: the flush is done    *)
(* and LLEN of the report fails                                            *)
RewriteFinishFails ==
    /\ Rewriting /\ Locals.pc = "loop" /\ ~MoreLines
    /\ arg.cfg.writer = "redis"
    /\ \/ /\ Locals.pending > 0
          /\ RewriteReturn([Locals EXCEPT !.flushes = @ + 1], "redis pipeline exec")
       \/ RewriteReturn(IF Locals.pending > 0 THEN QueueFlush("redis", Locals) ELSE Locals,
                        "llen")
    /\ UNCHANGED <<arg, runVars>>

(* lines 96-101, 115: the locals before the loop *)
InitRewrite ==
    /\ Idle
    /\ arg \in RewriteArgs
    /\ res = [done |-> FALSE,
              val |-> [pc |-> "open", nIn |-> 0, nOut |-> 0, nBad |-> 0, cur |-> 0,
                       base |-> 0, batch |-> 0, pending |-> 0, outW |-> <<>>,
                       pipe |-> <<>>, pushed |-> <<>>, flushes |-> 0, err |-> ""]]

NextRewrite ==
    \/ RewriteOpen
    \/ RewriteOpenFails
    \/ RewriteLine
    \/ RewriteWriteFails
    \/ RewriteEnqueueFails
    \/ RewriteFlushFails
    \/ RewriteScanFails
    \/ RewriteFinish
    \/ RewriteFinishFails

SpecRewrite == InitRewrite /\ [][NextRewrite]_vars

----------------------------------------------------------------------------
(* what was handed to the queue writer, in the order of the calls *)
Enqueued == Locals.pushed \o Locals.pipe
RewriteStarted == arg.fn = "runLoadDumpAndRewrite" /\ Locals.pc # "open"
(* no error of the files or of the queue has ended the run *)
NoRewriteError == Locals.err = ""
IsSkipped(line) == line.k \in {"blank", "invalid"}
IsObject(line) == line.k = "object"
LinesRead == SubSeq(arg.lines, 1, Locals.nIn)
IdsOf(lines) == [i \in 1..Len(lines) |-> lines[i].id]
ExpectedSent(k) ==
    IF arg.cfg.Mode = "increment"
    THEN Locals.base + (k - 1) * arg.cfg.Step
    ELSE Locals.base

(* the k-th emitted line carries base + (k-1)*step, or base in same mode *)
C39_SentValues ==
    RewriteStarted =>
        \A k \in 1..Len(Locals.outW) : Locals.outW[k].sent = <<ExpectedSent(k)>>

(* every line read so far is emitted or skipped and counted *)
C39_LinesPartition ==
    (RewriteStarted /\ NoRewriteError) =>
        /\ Locals.nIn = Locals.nOut + Locals.nBad
        /\ Locals.nBad = Len(SelectSeq(LinesRead, IsSkipped))
        /\ Locals.nOut = Len(Locals.outW)
        /\ IdsOf(Locals.outW) = IdsOf(SelectSeq(LinesRead, IsObject))

(* each emitted line is enqueued once, in dump order, as it was written *)
C39_EnqueuedAsWritten ==
    (RewriteStarted /\ NoRewriteError /\ arg.cfg.writer # "none") =>
        Enqueued = Locals.outW

(* C39: in increment mode the k-th emitted line carries the sent value     *)
(* base + (k-1)*step and in same mode every emitted line carries base;     *)
(* every line read is either emitted or skipped and counted, so that       *)
(* in_lines = out_lines + bad_lines; with a queue configured each emitted  *)
(* line is enqueued once, in dump order, with the bytes written to the out *)
(* dump.  Violated: a line that is the JSON literal null is neither        *)
(* skipped nor emitted, the run panics with in_lines = out_lines +         *)
(* bad_lines + 1.                                                          *)
C39_DumpRewritten ==
    /\ C39_SentValues
    /\ C39_LinesPartition
    /\ C39_EnqueuedAsWritten

(* the second line is null: one line emitted and queued, then the panic *)
C39_Panic ==
    /\ RewriteStarted
    /\ arg.lines = <<DumpLine("object", 1, <<>>), DumpLine("null", 0, <<>>), DumpLine("object", 2, <<7>>)>>
    /\ arg.cfg.writer = "redis"
    /\ res.done /\ Locals.pc = "panic" /\ Locals.err = ""
    /\ Locals.nIn = 2 /\ Locals.nOut = 1 /\ Locals.nBad = 0
    /\ Locals.pipe # <<>> /\ Locals.pushed = <<>>

(* without a null line the dump is rewritten as described *)
C39_WithoutNull ==
    (\A i \in 1..Len(arg.lines) : arg.lines[i] # DumpLine("null", 0, <<>>)) => C39_DumpRewritten

(* increment mode, a skipped line between two objects, all of it done *)
C39_Incremented ==
    /\ RewriteStarted /\ Locals.pc = "done"
    /\ arg.cfg.Mode = "increment" /\ arg.cfg.Step = 5 /\ arg.cfg.BaseEpoch = 1000
    /\ arg.cfg.writer = "redis"
    /\ arg.lines = <<DumpLine("object", 2, <<7>>), DumpLine("invalid", 0, <<>>), DumpLine("object", 1, <<>>)>>
    /\ Locals.outW = <<[id |-> 2, sent |-> <<1000>>], [id |-> 1, sent |-> <<1005>>]>>
    /\ Locals.pushed = Locals.outW
    /\ Locals.nIn = 3 /\ Locals.nOut = 2 /\ Locals.nBad = 1

----------------------------------------------------------------------------
(* the step has scanned one line, to the end of the iteration or to a return *)
LineScanned == Locals.pc = "loop" /\ Locals'.nIn = Locals.nIn + 1
EnqueuedNow == Len(Enqueued') = Len(Enqueued) + 1
FlushedNow == Locals'.flushes = Locals.flushes + 1
QueueErrors == {"enqueue", "redis pipeline exec"}

(* at the top of an iteration less than a batch is pending, and what is    *)
(* pending is what the pipeline of the Redis writer holds                  *)
C40_PendingBelowBatch ==
    (RewriteStarted /\ Locals.pc = "loop") =>
        /\ Locals.pending < Locals.batch
        /\ Locals.batch = (IF arg.cfg.BatchSize <= 0 THEN DefaultBatch ELSE arg.cfg.BatchSize)
        /\ arg.cfg.writer = "redis" => Len(Locals.pipe) = Locals.pending
        /\ arg.cfg.BatchSize <= 0 => Locals.flushes = 0

(* a run that returned nil has flushed all it enqueued *)
C40_AllFlushed ==
    (RewriteStarted /\ Locals.pc = "done") =>
        /\ Locals.pipe = <<>>
        /\ arg.cfg.writer # "none" => Locals.pushed = Locals.outW

(* an error of the queue has ended the run *)
C40_ErrorEnds ==
    (RewriteStarted /\ Locals.err \in QueueErrors) => res.done /\ Locals.pc = "failed"

(* in the loop Flush is called when the pending count reaches the batch    *)
(* size and only then; nothing is done after the run has ended             *)
C40_FlushStep ==
    (arg.fn = "runLoadDumpAndRewrite") =>
        /\ ~res.done
        /\ LineScanned =>
              /\ FlushedNow \/ Locals'.flushes = Locals.flushes
              /\ FlushedNow <=> (EnqueuedNow /\ Locals.pending + 1 = Locals.batch)
              /\ (Locals'.pc = "loop" /\ FlushedNow) =>
                    Locals'.pending = 0 /\ Locals'.pipe = <<>>
              /\ (Locals'.pc = "loop" /\ EnqueuedNow /\ ~FlushedNow) =>
                    Locals'.pending = Locals.pending + 1
        /\ Locals'.err \in QueueErrors => res'.done

(* C40: at the top of every iteration the number of enqueued and not yet   *)
(* flushed messages is below the batch size, a batch size of zero or less  *)
(* being 1000; in the loop a flush happens exactly when that number        *)
(* reaches the batch size; a run that completes has flushed every message  *)
(* it enqueued; an error of Enqueue or Flush ends the run at once.         *)
C40_BatchedPush ==
    /\ [](C40_PendingBelowBatch /\ C40_AllFlushed /\ C40_ErrorEnds)
    /\ [][C40_FlushStep]_vars

(* batch 2, three objects: one flush in the loop, one at the end *)
C40_Witness ==
    /\ RewriteStarted /\ Locals.pc = "done"
    /\ arg.cfg.writer = "redis" /\ arg.cfg.BatchSize = 2
    /\ Locals.nOut = 3 /\ Locals.flushes = 2
    /\ Len(Locals.pushed) = 3

(* batch 0: nothing is flushed while the dump is read *)
C40_WitnessDefault ==
    /\ RewriteStarted /\ Locals.pc = "loop"
    /\ arg.cfg.writer = "redis" /\ arg.cfg.BatchSize = 0
    /\ Locals.batch = DefaultBatch
    /\ Locals.nOut = MaxLines /\ Locals.pending = MaxLines /\ Locals.flushes = 0

(* the flush of a full batch fails with a line of the dump still unread *)
C40_WitnessAborted ==
    /\ RewriteStarted /\ res.done
    /\ Locals.err = "redis pipeline exec"
    /\ Locals.pending = Locals.batch
    /\ Locals.nIn < Len(arg.lines)
    /\ Locals.pushed = <<>>

(* the publish of the second line fails: written twice, enqueued once *)
C40_WitnessEnqueue ==
    /\ RewriteStarted /\ res.done
    /\ Locals.err = "enqueue"
    /\ Locals.nOut = 2 /\ Len(Enqueued) = 1
    /\ Locals.nIn < Len(arg.lines)

====
